---- MODULE Spec2Model ----
(***************************************************************************)
(* A model of the IP2Location / IP2Proxy BIN reader: the bounds-checked    *)
(* blob reader, the header parser and family detection, the range search   *)
(* of both families, row materialisation and the facade.                   *)
(*                                                                         *)
(* Conventions.                                                            *)
(*   - A blob is a sequence of bytes (0..255); offsets are 1-based, as in  *)
(*     the source.                                                         *)
(*   - A u32 is a pair <<hi, lo>> of 16-bit halves, so that the full       *)
(*     32-bit range and its wrap-around are representable.                 *)
(*   - A u64 offset handed to the blob reader is an integer; a u32 whose   *)
(*     high half is not zero is handed over as BigOff, which is past the   *)
(*     end of every blob of the model (every such read is out of bounds).  *)
(*   - Rust's integer overflow depends on the build: a debug build panics, *)
(*     a release build wraps.  The variable build chooses between them.    *)
(*   - A result is Ok(v), Err(kind) or Panic (a Rust panic: an abort).     *)
(*   - An Option is a sequence of length 0 (None) or 1 (Some).             *)
(***************************************************************************)
EXTENDS Integers, Sequences, FiniteSets, TLC

\* disk:   the bytes of every file (never written)
\* file:   the path handed to open
\* build:  the build of the library ("debug" or "release")
\* opened: what DB::from_file returned (NotYet before the call)
\* query:  the address of the last ip_lookup; result: what it returned
\* rd:     the last call of a blob reader and what it returned
\* lk:     the lookups in progress on the handle, one per thread: the local
\*         variables of each (address, table, target, low, high) and its
\*         outcome
VARIABLES disk, file, build, opened, query, result, rd, lk

vars == <<disk, file, build, opened, query, result, rd, lk>>

(***************************************************************************)
(* Results                                                                 *)
(***************************************************************************)
Ok(v) == [tag |-> "Ok", v |-> v, err |-> "none"]

Err(e) == [tag |-> "Err", v |-> <<>>, err |-> e]

Panic == [tag |-> "Panic", v |-> <<>>, err |-> "panic"]

IsOk(r) == r.tag = "Ok"

None == <<>>

Some(x) == <<x>>

(***************************************************************************)
(* u32 arithmetic on <<hi, lo>> pairs                                      *)
(***************************************************************************)
Half == 256 * 256

U32(n) == <<n \div Half, n % Half>>

U32Max == <<65535, 65535>>

U32Lt(a, b) == a[1] < b[1] \/ (a[1] = b[1] /\ a[2] < b[2])

U32Le(a, b) == a = b \/ U32Lt(a, b)

\* a + b modulo 2^32
U32Add(a, b) ==
    LET lo == a[2] + b[2]
        hi == a[1] + b[1] + (lo \div Half)
    IN  <<hi % Half, lo % Half>>

AddOvf(a, b) == a[1] + b[1] + ((a[2] + b[2]) \div Half) >= Half

\* a - 1 modulo 2^32
U32Dec(a) ==
    IF a[2] > 0 THEN <<a[1], a[2] - 1>>
    ELSE IF a[1] > 0 THEN <<a[1] - 1, Half - 1>>
    ELSE U32Max

DecOvf(a) == a = <<0, 0>>

\* a * k modulo 2^32, for a factor k below 2^15
U32Mul(a, k) ==
    LET lo == a[2] * k
        hi == a[1] * k + (lo \div Half)
    IN  <<hi % Half, lo % Half>>

MulOvf(a, k) == a[1] * k + ((a[2] * k) \div Half) >= Half

\* a >> 1
U32Shr1(a) == <<a[1] \div 2, (a[2] \div 2) + (a[1] % 2) * (Half \div 2)>>

\* (a >> 16) << 3: the shift is on the 16 bits left, so it never wraps
U32Hi16Shl3(a) == U32(a[1] * 8)

BigOff == 15 * Half

\* a u32 offset "as u64", for the blob reader
Off(a) == IF a[1] >= 15 THEN BigOff ELSE a[1] * Half + a[2]

(***************************************************************************)
(* Addresses: an IPv4 address is 4 octets, an IPv6 address 16 octets.      *)
(***************************************************************************)
V4(a, b, c, d) == [v |-> 4, o |-> <<a, b, c, d>>]

Seg(s) == <<s \div 256, s % 256>>

V6(a, b, c, d, e, f, g, h) ==
    [v |-> 6, o |-> Seg(a) \o Seg(b) \o Seg(c) \o Seg(d) \o Seg(e) \o Seg(f) \o Seg(g) \o Seg(h)]

\* u32::from(Ipv4Addr)
U32OfOctets(o) == <<o[1] * 256 + o[2], o[3] * 256 + o[4]>>

\* unsigned 128-bit order on 16 octets (Ipv6Addr's Ord)
V6Lt(a, b) ==
    LET d == {i \in 1..16 : a[i] # b[i]}
    IN  d # {} /\ LET m == CHOOSE i \in d : \A j \in d : i <= j IN a[m] < b[m]

V6Le(a, b) == a = b \/ V6Lt(a, b)

Unspecified == [v |-> 6, o |-> [i \in 1..16 |-> 0]]

(***************************************************************************)
(* The files of the model.  A file is named by a string; Blob(f) is its    *)
(* bytes.  The layout is the BIN layout: the header fields at offsets      *)
(* 1..35, zero padding up to offset 64, the IPv4 rows, the IPv6 rows, the  *)
(* string pool.                                                            *)
(***************************************************************************)
RECURSIVE Concat(_)
Concat(ss) == IF ss = <<>> THEN <<>> ELSE Head(ss) \o Concat(Tail(ss))

Zeros(n) == [i \in 1..n |-> 0]

\* a number below 2^31 as four little-endian bytes
LE32(n) == <<n % 256, (n \div 256) % 256, (n \div Half) % 256, n \div (256 * Half)>>

\* the entries of the string pool: a country entry is the short name, then
\* the long name three bytes after the entry's start
PoolEntries ==
    << <<1, 45, 0, 1, 45>>,              \* 1: "-" "-"
       <<2, 85, 83, 3, 85, 83, 65>>,     \* 2: "US" "USA"
       <<2, 73, 78, 3, 73, 110, 100>>,   \* 3: "IN" "Ind"
       <<3, 68, 67, 72>>,                \* 4: "DCH"
       <<3, 80, 85, 66>>,                \* 5: "PUB"
       <<3, 83, 69, 83>>,                \* 6: "SES"
       <<2, 82, 49>>,                    \* 7: "R1"
       <<2, 67, 49>>,                    \* 8: "C1"
       <<1, 255>> >>                     \* 9: one byte that is not UTF-8

Pool == Concat(PoolEntries)

PoolNames == <<"-", "US", "IN", "DCH", "PUB", "SES", "R1", "C1", "bad">>

\* where the entry named n starts in the pool (0-based)
PoolOff(n) ==
    LET e == CHOOSE i \in 1..Len(PoolNames) : PoolNames[i] = n
    IN  Len(Concat(SubSeq(PoolEntries, 1, e - 1)))

\* a cell of a row: a pointer to a pool entry, or four raw bytes
Ptr(n) == <<"p", n>>

Raw(b0, b1, b2, b3) == <<"r", <<b0, b1, b2, b3>> >>

CellBytes(c, poolPtr) == IF c[1] = "p" THEN LE32(poolPtr + PoolOff(c[2])) ELSE c[2]

RECURSIVE CellsBytes(_, _)
CellsBytes(cells, poolPtr) ==
    IF cells = <<>> THEN <<>>
    ELSE CellBytes(Head(cells), poolPtr) \o CellsBytes(Tail(cells), poolPtr)

\* a row: the range-begin address and the cells of columns 2..db_column
Row(addr, cells) == <<addr, cells>>

\* on disk an address is stored least-significant octet first
Reverse(q) == [i \in 1..Len(q) |-> q[Len(q) + 1 - i]]

RECURSIVE RowsBytes(_, _)
RowsBytes(rows, poolPtr) ==
    IF rows = <<>> THEN <<>>
    ELSE Reverse(Head(rows)[1].o) \o CellsBytes(Head(rows)[2], poolPtr)
         \o RowsBytes(Tail(rows), poolPtr)

\* the rows start after the 64 bytes the header region takes
HeaderEnd == 32 + 32

Header(t, c, y, c4, b4, c6, b6, i4, i6, pc) ==
    <<t, c, y, 11, 1>> \o c4 \o b4 \o c6 \o b6 \o i4 \o i6 \o <<pc, 1>> \o LE32(0)

\* a database file: the header counts every row of a table, and the last row
\* of a table only bounds the range of the row before it
MkDb(pc, t, c, y, rows4, rows6) ==
    LET size4   == Len(rows4) * (c * 4)
        size6   == Len(rows6) * (c * 4 + 12)
        base4   == HeaderEnd + 1
        base6   == IF rows6 = <<>> THEN 0 ELSE base4 + size4
        poolPtr == HeaderEnd + size4 + size6
        count(rows) == Len(rows)
        hdr     == Header(t, c, y, LE32(count(rows4)), LE32(base4),
                          LE32(count(rows6)), LE32(base6), LE32(0), LE32(0), pc)
    IN  hdr \o Zeros(HeaderEnd - Len(hdr))
            \o RowsBytes(rows4, poolPtr) \o RowsBytes(rows6, poolPtr) \o Pool

V4Max == V4(255, 255, 255, 255)

V6Max == V6(65535, 65535, 65535, 65535, 65535, 65535, 65535, 65535)

V6Zero == V6(0, 0, 0, 0, 0, 0, 0, 0)

NoCell == Raw(0, 0, 0, 0)

\* IPv4 ranges from 0.0.0.0 to the end of the address space
RowsV4Full ==
    << Row(V4(0, 0, 0, 0), <<Ptr("-")>>),
       Row(V4(1, 0, 0, 0), <<Ptr("US")>>),
       Row(V4(2, 0, 0, 0), <<Ptr("IN")>>),
       Row(V4Max, <<NoCell>>) >>

\* IPv4 ranges that leave addresses uncovered below and above
RowsV4Gap ==
    << Row(V4(1, 0, 0, 0), <<Ptr("US")>>),
       Row(V4(2, 0, 0, 0), <<Ptr("IN")>>),
       Row(V4(3, 0, 0, 0), <<NoCell>>) >>

RowsV6Full ==
    << Row(V6Zero, <<Ptr("-")>>),
       Row(V6(8192, 0, 0, 0, 0, 0, 0, 0), <<Ptr("US")>>),       \* 2000::
       Row(V6(10753, 0, 0, 0, 0, 0, 0, 0), <<Ptr("IN")>>),      \* 2a01::
       Row(V6Max, <<NoCell>>) >>

RowsV6Gap ==
    << Row(V6(8192, 0, 0, 0, 0, 0, 0, 0), <<Ptr("US")>>),       \* 2000::
       Row(V6(10753, 0, 0, 0, 0, 0, 0, 0), <<Ptr("IN")>>),      \* 2a01::
       Row(V6(12288, 0, 0, 0, 0, 0, 0, 0), <<NoCell>>) >>      \* 3000::

\* location DB5: country, region, city, latitude, longitude
RowsV4Db5 ==
    << Row(V4(0, 0, 0, 0),
           <<Ptr("-"), Ptr("-"), Ptr("-"), Raw(0, 0, 0, 0), Raw(0, 0, 0, 0)>>),
       Row(V4(1, 0, 0, 0),
           <<Ptr("US"), Ptr("R1"), Ptr("C1"), Raw(0, 0, 24, 66), Raw(0, 0, 200, 194)>>),
       Row(V4Max, <<NoCell, NoCell, NoCell, NoCell, NoCell>>) >>

\* proxy PX2: proxy type, country
RowsV4Px2 ==
    << Row(V4(0, 0, 0, 0), <<Ptr("-"), Ptr("-")>>),
       Row(V4(1, 0, 0, 0), <<Ptr("DCH"), Ptr("US")>>),
       Row(V4(2, 0, 0, 0), <<Ptr("PUB"), Ptr("IN")>>),
       Row(V4(3, 0, 0, 0), <<Ptr("SES"), Ptr("US")>>),
       Row(V4Max, <<NoCell, NoCell>>) >>

\* ranges whose begins have the 16-bit prefixes 0, 1 and 2
RowsV4Low ==
    << Row(V4(0, 0, 0, 0), <<Ptr("-")>>),
       Row(V4(0, 1, 0, 0), <<Ptr("US")>>),
       Row(V4(0, 2, 0, 0), <<Ptr("IN")>>),
       Row(V4Max, <<NoCell>>) >>

RowsV6Low ==
    << Row(V6Zero, <<Ptr("-")>>),
       Row(V6(1, 0, 0, 0, 0, 0, 0, 0), <<Ptr("US")>>),          \* 1::
       Row(V6(2, 0, 0, 0, 0, 0, 0, 0), <<Ptr("IN")>>),          \* 2::
       Row(V6Max, <<NoCell>>) >>

\* the index entries of the prefixes 0, 1, 2 and 3 of the tables above: the
\* window <<low, high>> of the rows that cover an address of the prefix
IdxLow == << <<0, 0>>, <<1, 1>>, <<2, 2>>, <<2, 3>> >>

RECURSIVE IndexBytes(_)
IndexBytes(ws) ==
    IF ws = <<>> THEN <<>>
    ELSE LE32(Head(ws)[1]) \o LE32(Head(ws)[2]) \o IndexBytes(Tail(ws))

ProductLocation == 1

ProductProxy == 2

\* the well-formed database files: product code, db_type, db_column, year
\* and the rows of the two tables
Layout(f) ==
    CASE f = "loc1"     -> <<ProductLocation, 1, 2, 24, RowsV4Full, RowsV6Full>>
      [] f = "loc1v4"   -> <<ProductLocation, 1, 2, 24, RowsV4Full, <<>> >>
      [] f = "loc1gap"  -> <<ProductLocation, 1, 2, 24, RowsV4Gap, RowsV6Gap>>
      [] f = "loc5"     -> <<ProductLocation, 5, 6, 24, RowsV4Db5, <<>> >>
      [] f = "px1"      -> <<ProductProxy, 1, 2, 24, RowsV4Full, <<>> >>
      [] f = "px1gap"   -> <<ProductProxy, 1, 2, 24, RowsV4Gap, <<>> >>
      [] f = "px1v6"    -> <<ProductProxy, 1, 2, 24, RowsV4Full, RowsV6Full>>
      [] f = "px2"      -> <<ProductProxy, 2, 3, 24, RowsV4Px2, <<>> >>
      [] f = "legacy"   -> <<0, 1, 2, 20, RowsV4Full, <<>> >>
      [] f = "legacy24" -> <<0, 1, 2, 24, RowsV4Full, <<>> >>
      [] f = "pc3"      -> <<3, 1, 2, 24, RowsV4Full, <<>> >>
      [] f = "loc1idx"  -> <<ProductLocation, 1, 2, 24, RowsV4Low, RowsV6Low>>
      [] f = "px1idx"   -> <<ProductProxy, 1, 2, 24, RowsV4Low, RowsV6Low>>

LaidOut ==
    {"loc1", "loc1v4", "loc1gap", "loc5", "px1", "px1gap", "px1v6", "px2", "legacy",
     "legacy24", "pc3"}

MkFile(l) == MkDb(l[1], l[2], l[3], l[4], l[5], l[6])

\* the file of a layout with an index of each table after the string pool:
\* the header fields at offsets 22 and 26 hold the offsets of the indexes
MkIdx(l, idx4, idx6) ==
    LET b  == MkFile(l)
        i4 == Len(b) + 1
        i6 == i4 + Len(IndexBytes(idx4))
    IN  SubSeq(b, 1, 21) \o LE32(i4) \o LE32(i6) \o SubSeq(b, 30, Len(b))
            \o IndexBytes(idx4) \o IndexBytes(idx6)

\* the files that have an index of each table
Indexed == {"loc1idx", "px1idx"}

BlobDef(f) ==
    CASE f \in LaidOut  -> MkFile(Layout(f))
      [] f \in Indexed  -> MkIdx(Layout(f), IdxLow, IdxLow)
      [] f = "gapc0"    -> [MkFile(Layout("loc1gap")) EXCEPT ![2] = 0]
      [] f = "pxc64"    -> [MkFile(Layout("px1")) EXCEPT ![2] = 64]
      [] f = "ff64"     -> [i \in 1..64 |-> 255]
      [] f = "loc0"     -> [MkFile(Layout("loc1v4")) EXCEPT ![1] = 0]
      [] f = "loc26"    -> [MkFile(Layout("loc1v4")) EXCEPT ![1] = 26]
      [] f = "locc0"    -> [MkFile(Layout("loc1v4")) EXCEPT ![2] = 0]
      [] f = "px12"     -> [MkFile(Layout("px1")) EXCEPT ![1] = 12]
      [] f = "hdr32p1"  -> SubSeq(MkFile(Layout("loc1v4")), 1, 32)
      [] f = "hdr34p2"  -> SubSeq(MkFile(Layout("px1")), 1, 34)
      [] f = "hdr35p1"  -> SubSeq(MkFile(Layout("loc1v4")), 1, 35)
      [] f = "short31"  -> SubSeq(MkFile(Layout("loc1v4")), 1, 31)
      [] f = "short10"  -> Zeros(10)
      [] f = "short1"   -> <<1>>
      [] f = "missing"  -> <<>>

Files ==
    LaidOut \cup {"ff64", "hdr32p1", "hdr34p2", "hdr35p1", "short31", "short10", "short1",
                  "missing", "loc0", "loc26", "locc0", "px12", "gapc0", "pxc64"}
        \cup Indexed

\* the content of the file system
BlobTable == [f \in Files |-> BlobDef(f)]

\* the bytes the mapping of file f holds
Blob(f) == disk[f]

\* path.exists()
Exists(f) == f # "missing"

(***************************************************************************)
(* The blob reader of common.rs (Source): 1-based offsets, every access    *)
(* bounds-checked.  A blob b is a sequence of bytes.                       *)
(***************************************************************************)
ReplacementChar == 65533

\* String::from_utf8_lossy on bytes that hold no multi-byte sequence: an
\* ASCII byte is kept, any other byte becomes U+FFFD.
Utf8Lossy(bytes) ==
    [i \in 1..Len(bytes) |-> IF bytes[i] < 128 THEN bytes[i] ELSE ReplacementChar]

LeU32(b, o) == <<b[o + 2] + 256 * b[o + 3], b[o] + 256 * b[o + 1]>>

read_u8(b, o) ==
    IF o = 0 THEN Err("GenericError")
    ELSE IF o - 1 >= Len(b) THEN Err("GenericError")
    ELSE Ok(b[o])

read_u32(b, o) ==
    IF o = 0 THEN Err("GenericError")
    ELSE IF (o - 1) + 4 > Len(b) THEN Err("GenericError")
    ELSE Ok(LeU32(b, o))

read_f32(b, o) ==
    IF o = 0 THEN Err("GenericError")
    ELSE IF (o - 1) + 4 > Len(b) THEN Err("GenericError")
    ELSE Ok(LeU32(b, o))

read_str(b, o) ==
    LET len == read_u8(b, o + 1)
    IN  IF ~IsOk(len) THEN len
        ELSE LET start == o + 1
                 end   == start + len.v
             IN  IF end > Len(b) THEN Err("GenericError")
                 ELSE Ok(Utf8Lossy(SubSeq(b, start + 1, end)))

read_ipv6(b, o) ==
    IF o = 0 THEN Err("GenericError")
    ELSE IF (o - 1) + 16 > Len(b) THEN Err("GenericError")
    ELSE Ok([i \in 1..16 |-> b[o + 16 - i]])

(***************************************************************************)
(* The readers of lib.rs (the DB that reads through a File or an Mmap).    *)
(* mode is "file" or "mmap"; bld is the build ("debug" or "release").      *)
(***************************************************************************)
\* File::read at position pos (0-based) into a zeroed buffer of n bytes: the
\* bytes the file holds there, the rest of the buffer left zero.
FileRead(b, pos, n) ==
    [i \in 1..n |-> IF pos + i <= Len(b) THEN b[pos + i] ELSE 0]

\* m[i] for a 0-based index: a panic when i is not below the length
MmapIn(b, i) == i >= 0 /\ i < Len(b)

NeU32(q) == <<q[3] + 256 * q[4], q[1] + 256 * q[2]>>

lib_read_u8(mode, bld, b, o) ==
    IF mode = "file"
    THEN IF o = 0
         THEN (IF bld = "debug" THEN Panic ELSE Err("IoError"))
         ELSE Ok(FileRead(b, o - 1, 1)[1])
    ELSE IF o = 0 \/ ~MmapIn(b, o - 1) THEN Panic
         ELSE Ok(b[o])

lib_read_u32(mode, bld, b, o) ==
    IF mode = "file"
    THEN IF o = 0
         THEN (IF bld = "debug" THEN Panic ELSE Err("IoError"))
         ELSE Ok(NeU32(FileRead(b, o - 1, 4)))
    ELSE IF o = 0 \/ ~MmapIn(b, o - 1) \/ ~MmapIn(b, o + 2) THEN Panic
         ELSE Ok(LeU32(b, o))

lib_read_f32(mode, bld, b, o) ==
    IF mode = "file"
    THEN IF o = 0
         THEN (IF bld = "debug" THEN Panic ELSE Err("IoError"))
         ELSE Ok(NeU32(FileRead(b, o - 1, 4)))
    ELSE IF o = 0 \/ ~MmapIn(b, o - 1) \/ ~MmapIn(b, o + 2) THEN Panic
         ELSE Ok(LeU32(b, o))

\* std::str::from_utf8 on bytes that hold no multi-byte sequence
Utf8Valid(bytes) == \A i \in 1..Len(bytes) : bytes[i] < 128

lib_read_str(mode, bld, b, o) ==
    LET len == lib_read_u8(mode, bld, b, o + 1)
    IN  IF ~IsOk(len) THEN len
        ELSE IF mode = "file"
        THEN LET buf == FileRead(b, o + 1, len.v)
             IN  IF Utf8Valid(buf) THEN Ok(buf) ELSE Err("GenericError")
        ELSE IF len.v > 0 /\ ~MmapIn(b, o + len.v) THEN Panic
        ELSE LET buf == SubSeq(b, o + 2, o + 1 + len.v)
             IN  IF Utf8Valid(buf) THEN Ok(buf) ELSE Err("GenericError")

\* sixteen read_u8 calls, at offset + 15 down to offset + 0; the first one
\* that fails ends the read
lib_read_ipv6(mode, bld, b, o) ==
    LET r(j) == lib_read_u8(mode, bld, b, o + j)
        bad  == {j \in 0..15 : ~IsOk(r(j))}
    IN  IF bad # {}
        THEN r(CHOOSE j \in bad : \A k \in bad : k <= j)
        ELSE Ok([i \in 1..16 |-> r(16 - i).v])

(***************************************************************************)
(* Schema tables: per field, the 1-based column of the field in a row for  *)
(* each db_type (0: the field is absent).  Entry t of a Rust array is      *)
(* element t + 1 of the tuple.                                             *)
(***************************************************************************)
LOC_COUNTRY_POSITION ==
    <<0, 2, 2, 2, 2, 2, 2, 2, 2, 2, 2, 2, 2, 2, 2, 2, 2, 2, 2, 2, 2, 2, 2, 2, 2, 2>>

LOC_REGION_POSITION ==
    <<0, 0, 0, 3, 3, 3, 3, 3, 3, 3, 3, 3, 3, 3, 3, 3, 3, 3, 3, 3, 3, 3, 3, 3, 3, 3>>

LOC_CITY_POSITION ==
    <<0, 0, 0, 4, 4, 4, 4, 4, 4, 4, 4, 4, 4, 4, 4, 4, 4, 4, 4, 4, 4, 4, 4, 4, 4, 4>>

LOC_ISP_POSITION ==
    <<0, 0, 3, 0, 5, 0, 7, 5, 7, 0, 8, 0, 9, 0, 9, 0, 9, 0, 9, 7, 9, 0, 9, 7, 9, 9>>

LOC_LATITUDE_POSITION ==
    <<0, 0, 0, 0, 0, 5, 5, 0, 5, 5, 5, 5, 5, 5, 5, 5, 5, 5, 5, 5, 5, 5, 5, 5, 5, 5>>

LOC_LONGITUDE_POSITION ==
    <<0, 0, 0, 0, 0, 6, 6, 0, 6, 6, 6, 6, 6, 6, 6, 6, 6, 6, 6, 6, 6, 6, 6, 6, 6, 6>>

LOC_DOMAIN_POSITION ==
    <<0, 0, 0, 0, 0, 0, 0, 6, 8, 0, 9, 0, 10, 0, 10, 0, 10, 0, 10, 8, 10, 0, 10, 8, 10, 10>>

LOC_ZIPCODE_POSITION ==
    <<0, 0, 0, 0, 0, 0, 0, 0, 0, 7, 7, 7, 7, 0, 7, 7, 7, 0, 7, 0, 7, 7, 7, 0, 7, 7>>

LOC_TIMEZONE_POSITION ==
    <<0, 0, 0, 0, 0, 0, 0, 0, 0, 0, 0, 8, 8, 7, 8, 8, 8, 7, 8, 0, 8, 8, 8, 0, 8, 8>>

LOC_NETSPEED_POSITION ==
    <<0, 0, 0, 0, 0, 0, 0, 0, 0, 0, 0, 0, 0, 8, 11, 0, 11, 8, 11, 0, 11, 0, 11, 0, 11, 11>>

LOC_IDDCODE_POSITION ==
    <<0, 0, 0, 0, 0, 0, 0, 0, 0, 0, 0, 0, 0, 0, 0, 9, 12, 0, 12, 0, 12, 9, 12, 0, 12, 12>>

LOC_AREACODE_POSITION ==
    <<0, 0, 0, 0, 0, 0, 0, 0, 0, 0, 0, 0, 0, 0, 0, 10, 13, 0, 13, 0, 13, 10, 13, 0, 13, 13>>

LOC_WEATHERSTATIONCODE_POSITION ==
    <<0, 0, 0, 0, 0, 0, 0, 0, 0, 0, 0, 0, 0, 0, 0, 0, 0, 9, 14, 0, 14, 0, 14, 0, 14, 14>>

LOC_WEATHERSTATIONNAME_POSITION ==
    <<0, 0, 0, 0, 0, 0, 0, 0, 0, 0, 0, 0, 0, 0, 0, 0, 0, 10, 15, 0, 15, 0, 15, 0, 15, 15>>

LOC_MCC_POSITION ==
    <<0, 0, 0, 0, 0, 0, 0, 0, 0, 0, 0, 0, 0, 0, 0, 0, 0, 0, 0, 9, 16, 0, 16, 9, 16, 16>>

LOC_MNC_POSITION ==
    <<0, 0, 0, 0, 0, 0, 0, 0, 0, 0, 0, 0, 0, 0, 0, 0, 0, 0, 0, 10, 17, 0, 17, 10, 17, 17>>

LOC_MOBILEBRAND_POSITION ==
    <<0, 0, 0, 0, 0, 0, 0, 0, 0, 0, 0, 0, 0, 0, 0, 0, 0, 0, 0, 11, 18, 0, 18, 11, 18, 18>>

LOC_ELEVATION_POSITION ==
    <<0, 0, 0, 0, 0, 0, 0, 0, 0, 0, 0, 0, 0, 0, 0, 0, 0, 0, 0, 0, 0, 11, 19, 0, 19, 19>>

LOC_USAGETYPE_POSITION ==
    <<0, 0, 0, 0, 0, 0, 0, 0, 0, 0, 0, 0, 0, 0, 0, 0, 0, 0, 0, 0, 0, 0, 0, 12, 20, 20>>

LOC_ADDRESSTYPE_POSITION ==
    <<0, 0, 0, 0, 0, 0, 0, 0, 0, 0, 0, 0, 0, 0, 0, 0, 0, 0, 0, 0, 0, 0, 0, 0, 0, 21>>

LOC_CATEGORY_POSITION ==
    <<0, 0, 0, 0, 0, 0, 0, 0, 0, 0, 0, 0, 0, 0, 0, 0, 0, 0, 0, 0, 0, 0, 0, 0, 0, 22>>

PX_PROXY_TYPE_POSITION ==
    <<0, 0, 2, 2, 2, 2, 2, 2, 2, 2, 2, 2>>

PX_COUNTRY_POSITION ==
    <<0, 2, 3, 3, 3, 3, 3, 3, 3, 3, 3, 3>>

PX_REGION_POSITION ==
    <<0, 0, 0, 4, 4, 4, 4, 4, 4, 4, 4, 4>>

PX_CITY_POSITION ==
    <<0, 0, 0, 5, 5, 5, 5, 5, 5, 5, 5, 5>>

PX_ISP_POSITION ==
    <<0, 0, 0, 0, 6, 6, 6, 6, 6, 6, 6, 6>>

PX_DOMAIN_POSITION ==
    <<0, 0, 0, 0, 0, 7, 7, 7, 7, 7, 7, 7>>

PX_USAGE_TYPE_POSITION ==
    <<0, 0, 0, 0, 0, 0, 8, 8, 8, 8, 8, 8>>

PX_ASN_POSITION ==
    <<0, 0, 0, 0, 0, 0, 0, 9, 9, 9, 9, 9>>

PX_AS_POSITION ==
    <<0, 0, 0, 0, 0, 0, 0, 10, 10, 10, 10, 10>>

PX_LAST_SEEN_POSITION ==
    <<0, 0, 0, 0, 0, 0, 0, 0, 11, 11, 11, 11>>

PX_THREAT_POSITION ==
    <<0, 0, 0, 0, 0, 0, 0, 0, 0, 12, 12, 12>>

PX_PROVIDER_POSITION ==
    <<0, 0, 0, 0, 0, 0, 0, 0, 0, 0, 0, 13>>

(***************************************************************************)
(* Header parser (read_header of both families) and DB::from_file          *)
(***************************************************************************)
ErrWith(e, v) == [tag |-> "Err", v |-> v, err |-> e]

\* the reads of read_header without the one of database_size
HeaderReads_no_size ==
    << <<1, 1>>, <<1, 2>>, <<1, 3>>, <<1, 4>>, <<1, 5>>, <<4, 6>>, <<4, 10>>, <<4, 14>>,
       <<4, 18>>, <<4, 22>>, <<4, 26>>, <<1, 30>>, <<1, 31>> >>

\* the reads of read_header, in order: <<width, offset>>
HeaderReads ==
    << <<1, 1>>, <<1, 2>>, <<1, 3>>, <<1, 4>>, <<1, 5>>, <<4, 6>>, <<4, 10>>, <<4, 14>>,
       <<4, 18>>, <<4, 22>>, <<4, 26>>, <<1, 30>>, <<1, 31>>, <<4, 32>> >>

HeaderReadFails(b) ==
    \E i \in 1..Len(HeaderReads) :
        LET r == HeaderReads[i]
        IN  ~IsOk(IF r[1] = 1 THEN read_u8(b, r[2]) ELSE read_u32(b, r[2]))

\* the fields read_header stores in the handle
HeaderFields(family, f) ==
    LET b == Blob(f)
    IN  [family               |-> family,
         src                  |-> f,
         db_type              |-> read_u8(b, 1).v,
         db_column            |-> read_u8(b, 2).v,
         db_year              |-> read_u8(b, 3).v,
         ipv4_db_count        |-> read_u32(b, 6).v,
         ipv4_db_addr         |-> read_u32(b, 10).v,
         ipv6_db_count        |-> read_u32(b, 14).v,
         ipv6_db_addr         |-> read_u32(b, 18).v,
         ipv4_index_base_addr |-> read_u32(b, 22).v,
         ipv6_index_base_addr |-> read_u32(b, 26).v,
         product_code         |-> read_u8(b, 30).v]

loc_read_header(f) ==
    IF HeaderReadFails(Blob(f)) THEN Err("GenericError")
    ELSE LET d == HeaderFields("location", f)
         IN  IF (d.db_year <= 20 /\ d.product_code = 0) \/ d.product_code = 1
             THEN Ok(d)
             ELSE ErrWith("InvalidBinDatabase", <<d.db_year, d.product_code>>)

px_read_header(f) ==
    IF HeaderReadFails(Blob(f)) THEN Err("GenericError")
    ELSE LET d == HeaderFields("proxy", f)
         IN  IF d.product_code = 2 THEN Ok(d)
             ELSE IF d.db_year <= 20 /\ d.product_code = 0 THEN Ok(d)
             ELSE ErrWith("InvalidBinDatabase", <<d.db_year, d.product_code>>)

MinHeaderLen == 32

NoSuchFile == "Error opening DB file: No such file or directory"

\* from_file reporting a file below the minimum length as UnknownDb
from_file_short_unknown(f) ==
    IF ~Exists(f) THEN ErrWith("IoError", <<NoSuchFile>>)
    ELSE IF Len(Blob(f)) < MinHeaderLen THEN Err("UnknownDb")
    ELSE LET product_code == Blob(f)[30]
         IN  CASE product_code = 1 -> loc_read_header(f)
               [] product_code = 2 -> px_read_header(f)
               [] product_code = 0 ->
                    (IF IsOk(loc_read_header(f)) THEN loc_read_header(f)
                     ELSE px_read_header(f))
               [] OTHER -> Err("UnknownDb")

\* from_file with the arms of product codes 1 and 2 exchanged
from_file_swapped(f) ==
    IF ~Exists(f) THEN ErrWith("IoError", <<NoSuchFile>>)
    ELSE IF Len(Blob(f)) < MinHeaderLen THEN Err("GenericError")
    ELSE LET product_code == Blob(f)[30]
         IN  CASE product_code = 1 -> px_read_header(f)
               [] product_code = 2 -> loc_read_header(f)
               [] product_code = 0 ->
                    (IF IsOk(loc_read_header(f)) THEN loc_read_header(f)
                     ELSE px_read_header(f))
               [] OTHER -> Err("UnknownDb")

\* from_file answering UnknownDb when a legacy file fails both validations
from_file_legacy_unknown(f) ==
    IF ~Exists(f) THEN ErrWith("IoError", <<NoSuchFile>>)
    ELSE IF Len(Blob(f)) < MinHeaderLen THEN Err("GenericError")
    ELSE LET product_code == Blob(f)[30]
         IN  CASE product_code = 1 -> loc_read_header(f)
               [] product_code = 2 -> px_read_header(f)
               [] product_code = 0 ->
                    (IF IsOk(loc_read_header(f)) THEN loc_read_header(f)
                     ELSE IF IsOk(px_read_header(f)) THEN px_read_header(f)
                     ELSE Err("UnknownDb"))
               [] OTHER -> Err("UnknownDb")

\* from_file without the test of path.exists(): File::open reports the
\* missing file in the words of the operating system
from_file_no_exists_test(f) ==
    IF ~Exists(f) THEN ErrWith("IoError", <<"No such file or directory (os error 2)">>)
    ELSE IF Len(Blob(f)) < MinHeaderLen THEN Err("GenericError")
    ELSE LET product_code == Blob(f)[30]
         IN  CASE product_code = 1 -> loc_read_header(f)
               [] product_code = 2 -> px_read_header(f)
               [] product_code = 0 ->
                    (IF IsOk(loc_read_header(f)) THEN loc_read_header(f)
                     ELSE px_read_header(f))
               [] OTHER -> Err("UnknownDb")

\* DB::from_file: Ok(handle) or the error
from_file(f) ==
    IF ~Exists(f) THEN ErrWith("IoError", <<NoSuchFile>>)
    ELSE IF Len(Blob(f)) < MinHeaderLen THEN Err("GenericError")
    ELSE LET product_code == Blob(f)[30]
         IN  CASE product_code = 1 -> loc_read_header(f)
               [] product_code = 2 -> px_read_header(f)
               [] product_code = 0 ->
                    (IF IsOk(loc_read_header(f)) THEN loc_read_header(f)
                     ELSE px_read_header(f))
               [] OTHER -> Err("UnknownDb")

(***************************************************************************)
(* Row materialisation: LocationDB::read_record                            *)
(***************************************************************************)
\* the fields in the order read_record fills them: name, table, kind.  The
\* tables of district, asn and as_name are not part of consts.rs; these
\* three fields are left out of the record.
LocFieldList ==
    << <<"country", LOC_COUNTRY_POSITION, "country">>,
       <<"region", LOC_REGION_POSITION, "str">>,
       <<"latitude", LOC_LATITUDE_POSITION, "f32">>,
       <<"longitude", LOC_LONGITUDE_POSITION, "f32">>,
       <<"city", LOC_CITY_POSITION, "str">>,
       <<"isp", LOC_ISP_POSITION, "str">>,
       <<"domain", LOC_DOMAIN_POSITION, "str">>,
       <<"zip_code", LOC_ZIPCODE_POSITION, "str">>,
       <<"time_zone", LOC_TIMEZONE_POSITION, "str">>,
       <<"net_speed", LOC_NETSPEED_POSITION, "str">>,
       <<"idd_code", LOC_IDDCODE_POSITION, "str">>,
       <<"area_code", LOC_AREACODE_POSITION, "str">>,
       <<"weather_station_code", LOC_WEATHERSTATIONCODE_POSITION, "str">>,
       <<"weather_station_name", LOC_WEATHERSTATIONNAME_POSITION, "str">>,
       <<"mcc", LOC_MCC_POSITION, "str">>,
       <<"mnc", LOC_MNC_POSITION, "str">>,
       <<"mobile_brand", LOC_MOBILEBRAND_POSITION, "str">>,
       <<"elevation", LOC_ELEVATION_POSITION, "str">>,
       <<"usage_type", LOC_USAGETYPE_POSITION, "str">>,
       <<"address_type", LOC_ADDRESSTYPE_POSITION, "str">>,
       <<"category", LOC_CATEGORY_POSITION, "str">> >>

LocFields == {LocFieldList[i][1] : i \in 1..Len(LocFieldList)}

\* LocationRecord::default()
LocDefault == [ip |-> Unspecified, f |-> [n \in LocFields |-> None]]

\* the value of one populated field of kind k whose column is at offset
\* cell (a u32): Ok(value), an error or a panic
LocFieldValue(b, bld, k, cell) ==
    IF k = "f32" THEN read_f32(b, Off(cell))
    ELSE LET index == read_u32(b, Off(cell))
         IN  IF ~IsOk(index) THEN index
             ELSE IF k = "str" THEN read_str(b, Off(index.v))
             ELSE LET short_name == read_str(b, Off(index.v))
                  IN  IF ~IsOk(short_name) THEN short_name
                      ELSE IF bld = "debug" /\ AddOvf(index.v, U32(3)) THEN Panic
                      ELSE LET long_name == read_str(b, Off(U32Add(index.v, U32(3))))
                           IN  IF ~IsOk(long_name) THEN long_name
                               ELSE Ok([short_name |-> short_name.v,
                                        long_name  |-> long_name.v])

RECURSIVE loc_fill(_, _, _, _, _)
loc_fill(d, bld, row_addr, i, acc) ==
    IF i > Len(LocFieldList) THEN Ok(acc)
    ELSE LET fl  == LocFieldList[i]
             pos == fl[2][d.db_type + 1]
         IN  IF pos = 0 THEN loc_fill(d, bld, row_addr, i + 1, acc)
             ELSE IF bld = "debug" /\ AddOvf(row_addr, U32(4 * (pos - 1))) THEN Panic
             ELSE LET cell == U32Add(row_addr, U32(4 * (pos - 1)))
                      val  == LocFieldValue(Blob(d.src), bld, fl[3], cell)
                  IN  IF ~IsOk(val) THEN val
                      ELSE loc_fill(d, bld, row_addr, i + 1,
                                    [acc EXCEPT !.f[fl[1]] = Some(val.v)])

\* TABLE[self.db_type as usize] panics when db_type is not an index
loc_read_record(d, bld, row_addr) ==
    IF d.db_type + 1 > Len(LOC_COUNTRY_POSITION) THEN Panic
    ELSE loc_fill(d, bld, row_addr, 1, LocDefault)

(***************************************************************************)
(* Row materialisation: ProxyDB::read_record                               *)
(***************************************************************************)
\* the fields read after the country block, in order: name, table
PxFieldList ==
    << <<"region", PX_REGION_POSITION>>,
       <<"city", PX_CITY_POSITION>>,
       <<"isp", PX_ISP_POSITION>>,
       <<"proxy_type", PX_PROXY_TYPE_POSITION>>,
       <<"domain", PX_DOMAIN_POSITION>>,
       <<"usage_type", PX_USAGE_TYPE_POSITION>>,
       <<"asn", PX_ASN_POSITION>>,
       <<"as_", PX_AS_POSITION>>,
       <<"last_seen", PX_LAST_SEEN_POSITION>>,
       <<"threat", PX_THREAT_POSITION>>,
       <<"provider", PX_PROVIDER_POSITION>> >>

PxFields == {"country"} \cup {PxFieldList[i][1] : i \in 1..Len(PxFieldList)}

\* Record::default() of the proxy family
PxDefault ==
    [ip |-> Unspecified, is_proxy |-> "IsAnError", f |-> [n \in PxFields |-> None]]

StrDash == <<45>>

StrDCH == <<68, 67, 72>>

StrSES == <<83, 69, 83>>

\* the string a column points to: the u32 at offset + 4 * (pos - 2), in
\* u64 arithmetic, then read_str at it
PxColumnStr(b, offset, pos) ==
    LET index == read_u32(b, Off(offset) + 4 * (pos - 2))
    IN  IF ~IsOk(index) THEN index ELSE read_str(b, Off(index.v))

\* the country block: the record after it, or the error
px_country(d, offset, rec) ==
    LET b   == Blob(d.src)
        pos == PX_COUNTRY_POSITION[d.db_type + 1]
    IN  IF pos = 0 THEN Ok(rec)
        ELSE LET index == read_u32(b, Off(offset) + 4 * (pos - 2))
             IN  IF ~IsOk(index) THEN index
                 ELSE LET country_short == read_str(b, Off(index.v))
                          country_long  == read_str(b, Off(index.v) + 3)
                          country == Some([short_name |-> country_short.v,
                                           long_name  |-> country_long.v])
                      IN  IF ~IsOk(country_short) THEN country_short
                          ELSE IF ~IsOk(country_long) THEN country_long
                          ELSE IF country_short.v = StrDash
                          THEN Ok([rec EXCEPT !.is_proxy = "IsNotAProxy",
                                              !.f["country"] = country])
                          ELSE LET proxy_type ==
                                       PxColumnStr(b, offset, PX_COUNTRY_POSITION[d.db_type + 1])
                               IN  IF ~IsOk(proxy_type) THEN proxy_type
                                   ELSE Ok([rec EXCEPT
                                              !.f["proxy_type"] = Some(proxy_type.v),
                                              !.is_proxy =
                                                  IF proxy_type.v = StrDCH \/ proxy_type.v = StrSES
                                                  THEN "IsADataCenterIpAddress"
                                                  ELSE "IsAProxy",
                                              !.f["country"] = country])

RECURSIVE px_fill(_, _, _, _)
px_fill(d, offset, i, acc) ==
    IF i > Len(PxFieldList) THEN Ok(acc)
    ELSE LET fl  == PxFieldList[i]
             pos == fl[2][d.db_type + 1]
         IN  IF pos = 0 \/ acc.f[fl[1]] # None THEN px_fill(d, offset, i + 1, acc)
             ELSE LET val == PxColumnStr(Blob(d.src), offset, pos)
                  IN  IF ~IsOk(val) THEN val
                      ELSE px_fill(d, offset, i + 1, [acc EXCEPT !.f[fl[1]] = Some(val.v)])

\* TABLE[db_type] panics when db_type is not an index
px_read_record(d, offset) ==
    IF d.db_type + 1 > Len(PX_COUNTRY_POSITION) THEN Panic
    ELSE LET c == px_country(d, offset, PxDefault)
         IN  IF ~IsOk(c) THEN c ELSE px_fill(d, offset, 1, c.v)

(***************************************************************************)
(* Range search of the location family                                     *)
(***************************************************************************)
\* the most row probes one search is followed for; a search that is still
\* looping after that many ends as "Diverge"
MaxProbe == 70

Diverge == [tag |-> "Diverge", v |-> <<>>, err |-> "loop"]

\* the window the index gives for key k (already shifted: k << 3), or the
\* error of the read; base is the index base
IndexWindow(b, bld, base, kShl3) ==
    IF bld = "debug" /\ AddOvf(kShl3, base) THEN Panic
    ELSE LET index == U32Add(kShl3, base)
             low   == read_u32(b, Off(index))
         IN  IF ~IsOk(low) THEN low
             ELSE IF bld = "debug" /\ AddOvf(index, U32(4)) THEN Panic
             ELSE LET high == read_u32(b, Off(U32Add(index, U32(4))))
                  IN  IF ~IsOk(high) THEN high
                      ELSE Ok(<<low.v, high.v>>)

\* base + m * column * 4, as the code computes it: <<overflowed, value>>
LocRow4(d, m) ==
    LET m1 == U32Mul(m, d.db_column)
        m2 == U32Mul(m1, 4)
    IN  <<MulOvf(m, d.db_column) \/ MulOvf(m1, 4) \/ AddOvf(d.ipv4_db_addr, m2),
          U32Add(d.ipv4_db_addr, m2)>>

RECURSIVE loc_ipv4_loop(_, _, _, _, _, _)
\* the loop of ipv4_lookup run while low < high
loc_ipv4_iter_strict(d, bld, ip_number, low, high, fuel) ==
    IF ~U32Lt(low, high) THEN Err("RecordNotFound")
    ELSE IF fuel = 0 THEN Diverge
    ELSE IF bld = "debug" /\ AddOvf(low, high) THEN Panic
    ELSE LET b    == Blob(d.src)
             mid  == U32Shr1(U32Add(low, high))
             rowA == LocRow4(d, mid)
             rowB == LocRow4(d, U32Add(mid, U32(1)))
         IN  IF bld = "debug" /\ rowA[1] THEN Panic
             ELSE LET ip_from == read_u32(b, Off(rowA[2]))
                  IN  IF ~IsOk(ip_from) THEN ip_from
                      ELSE IF bld = "debug" /\ rowB[1] THEN Panic
                      ELSE LET ip_to == read_u32(b, Off(rowB[2]))
                           IN  IF ~IsOk(ip_to) THEN ip_to
                               ELSE IF U32Le(ip_from.v, ip_number) /\ U32Lt(ip_number, ip_to.v)
                               THEN loc_read_record(d, bld, rowA[2])
                               ELSE IF U32Lt(ip_number, ip_from.v)
                               THEN (IF bld = "debug" /\ DecOvf(mid) THEN Panic
                                     ELSE loc_ipv4_loop(d, bld, ip_number, low, U32Dec(mid),
                                                        fuel - 1))
                               ELSE loc_ipv4_loop(d, bld, ip_number, U32Add(mid, U32(1)), high,
                                                  fuel - 1)

loc_ipv4_iter(d, bld, ip_number, low, high, fuel) ==
    IF ~U32Le(low, high) THEN Err("RecordNotFound")
    ELSE IF fuel = 0 THEN Diverge
    ELSE IF bld = "debug" /\ AddOvf(low, high) THEN Panic
    ELSE LET b    == Blob(d.src)
             mid  == U32Shr1(U32Add(low, high))
             rowA == LocRow4(d, mid)
             rowB == LocRow4(d, U32Add(mid, U32(1)))
         IN  IF bld = "debug" /\ rowA[1] THEN Panic
             ELSE LET ip_from == read_u32(b, Off(rowA[2]))
                  IN  IF ~IsOk(ip_from) THEN ip_from
                      ELSE IF bld = "debug" /\ rowB[1] THEN Panic
                      ELSE LET ip_to == read_u32(b, Off(rowB[2]))
                           IN  IF ~IsOk(ip_to) THEN ip_to
                               ELSE IF U32Le(ip_from.v, ip_number) /\ U32Lt(ip_number, ip_to.v)
                               THEN loc_read_record(d, bld, rowA[2])
                               ELSE IF U32Lt(ip_number, ip_from.v)
                               THEN (IF bld = "debug" /\ DecOvf(mid) THEN Panic
                                     ELSE loc_ipv4_loop(d, bld, ip_number, low, U32Dec(mid),
                                                        fuel - 1))
                               ELSE loc_ipv4_loop(d, bld, ip_number, U32Add(mid, U32(1)), high,
                                                  fuel - 1)

\* one pass of the loop, its variables bound to their values
loc_ipv4_loop(d, bld, ip_number, low, high, fuel) ==
    LET pass == { loc_ipv4_iter(d, bld, ip_number, s[1], s[2], s[3]) : s \in {<<low, high, fuel>>} }
    IN  CHOOSE r \in pass : TRUE

\* the target of the IPv4 search taken as it is
ClampMax_none(ip_number) == ip_number

\* the target of the IPv4 search: u32::MAX is replaced by u32::MAX - 1
ClampMax(ip_number) == IF ip_number = U32Max THEN U32Dec(ip_number) ELSE ip_number

loc_ipv4_lookup(d, bld, ip_in) ==
    LET ip_number == ClampMax(ip_in)
    IN  IF U32Lt(U32(0), d.ipv4_index_base_addr)
        THEN LET w == IndexWindow(Blob(d.src), bld, d.ipv4_index_base_addr,
                                  U32Hi16Shl3(ip_number))
             IN  IF ~IsOk(w) THEN w
                 ELSE loc_ipv4_loop(d, bld, ip_number, w.v[1], w.v[2], MaxProbe)
        ELSE loc_ipv4_loop(d, bld, ip_number, U32(0), d.ipv4_db_count, MaxProbe)

\* base + m * (column * 4 + 12): <<overflowed, value>>
LocRow6(d, m) ==
    LET m1 == U32Mul(m, d.db_column * 4 + 12)
    IN  <<MulOvf(m, d.db_column * 4 + 12) \/ AddOvf(d.ipv6_db_addr, m1),
          U32Add(d.ipv6_db_addr, m1)>>

RECURSIVE loc_ipv6_loop(_, _, _, _, _, _)
loc_ipv6_iter(d, bld, ipv6, low, high, fuel) ==
    IF ~U32Le(low, high) THEN Err("RecordNotFound")
    ELSE IF fuel = 0 THEN Diverge
    ELSE IF bld = "debug" /\ AddOvf(low, high) THEN Panic
    ELSE LET b    == Blob(d.src)
             mid  == U32Shr1(U32Add(low, high))
             rowA == LocRow6(d, mid)
             rowB == LocRow6(d, U32Add(mid, U32(1)))
         IN  IF bld = "debug" /\ rowA[1] THEN Panic
             ELSE LET ip_from == read_ipv6(b, Off(rowA[2]))
                  IN  IF ~IsOk(ip_from) THEN ip_from
                      ELSE IF bld = "debug" /\ rowB[1] THEN Panic
                      ELSE LET ip_to == read_ipv6(b, Off(rowB[2]))
                           IN  IF ~IsOk(ip_to) THEN ip_to
                               ELSE IF V6Le(ip_from.v, ipv6) /\ V6Lt(ipv6, ip_to.v)
                               THEN (IF bld = "debug" /\ AddOvf(rowA[2], U32(12)) THEN Panic
                                     ELSE loc_read_record(d, bld, U32Add(rowA[2], U32(12))))
                               ELSE IF V6Lt(ipv6, ip_from.v)
                               THEN (IF bld = "debug" /\ DecOvf(mid) THEN Panic
                                     ELSE loc_ipv6_loop(d, bld, ipv6, low, U32Dec(mid), fuel - 1))
                               ELSE loc_ipv6_loop(d, bld, ipv6, U32Add(mid, U32(1)), high,
                                                  fuel - 1)

\* one pass of the loop, its variables bound to their values
loc_ipv6_loop(d, bld, ipv6, low, high, fuel) ==
    LET pass == { loc_ipv6_iter(d, bld, ipv6, s[1], s[2], s[3]) : s \in {<<low, high, fuel>>} }
    IN  CHOOSE r \in pass : TRUE

\* (octet0 * 256 + octet1) << 3
V6KeyShl3(ipv6) == U32((ipv6[1] * 256 + ipv6[2]) * 8)

loc_ipv6_lookup(d, bld, ipv6) ==
    IF U32Lt(U32(0), d.ipv6_index_base_addr)
    THEN LET w == IndexWindow(Blob(d.src), bld, d.ipv6_index_base_addr, V6KeyShl3(ipv6))
         IN  IF ~IsOk(w) THEN w
             ELSE loc_ipv6_loop(d, bld, ipv6, w.v[1], w.v[2], MaxProbe)
    ELSE loc_ipv6_loop(d, bld, ipv6, U32(0), d.ipv6_db_count, MaxProbe)

(***************************************************************************)
(* Range search of the proxy family                                        *)
(***************************************************************************)
U8 == 256

RECURSIVE px_ipv4_loop(_, _, _, _, _, _, _)
px_ipv4_iter(d, bld, column_offset, ip_number, low, high, fuel) ==
    IF ~U32Le(low, high) THEN Err("RecordNotFound")
    ELSE IF fuel = 0 THEN Diverge
    ELSE IF bld = "debug" /\ AddOvf(low, high) THEN Panic
    ELSE LET b   == Blob(d.src)
             mid == U32Shr1(U32Add(low, high))
             m1  == U32Mul(mid, column_offset)
             row_offset == U32Add(d.ipv4_db_addr, m1)
         IN  IF bld = "debug" /\ (MulOvf(mid, column_offset) \/ AddOvf(d.ipv4_db_addr, m1))
             THEN Panic
             ELSE LET ip_from == read_u32(b, Off(row_offset))
                      ip_to   == read_u32(b, Off(row_offset) + column_offset)
                  IN  IF ~IsOk(ip_from) THEN ip_from
                      ELSE IF ~IsOk(ip_to) THEN ip_to
                      ELSE IF U32Le(ip_from.v, ip_number) /\ U32Lt(ip_number, ip_to.v)
                      THEN (IF bld = "debug" /\ AddOvf(row_offset, U32(4)) THEN Panic
                            ELSE px_read_record(d, U32Add(row_offset, U32(4))))
                      ELSE IF U32Lt(ip_number, ip_from.v)
                      THEN (IF bld = "debug" /\ DecOvf(mid) THEN Panic
                            ELSE px_ipv4_loop(d, bld, column_offset, ip_number, low,
                                              U32Dec(mid), fuel - 1))
                      ELSE px_ipv4_loop(d, bld, column_offset, ip_number,
                                        U32Add(mid, U32(1)), high, fuel - 1)

\* one pass of the loop, its variables bound to their values
px_ipv4_loop(d, bld, column_offset, ip_number, low, high, fuel) ==
    LET pass == { px_ipv4_iter(d, bld, column_offset, ip_number, s[1], s[2], s[3]) : s \in {<<low, high, fuel>>} }
    IN  CHOOSE r \in pass : TRUE

get_ipv4_record(d, bld, ip_in) ==
    LET ip_number == ClampMax(ip_in)
    IN  \* column_offset = database_column * 4, in u8
        IF bld = "debug" /\ d.db_column * 4 >= U8 THEN Panic
        ELSE LET column_offset == (d.db_column * 4) % U8
             IN  IF U32Lt(U32(0), d.ipv4_index_base_addr)
                 THEN LET w == IndexWindow(Blob(d.src), bld, d.ipv4_index_base_addr,
                                           U32Hi16Shl3(ip_number))
                      IN  IF ~IsOk(w) THEN w
                          ELSE px_ipv4_loop(d, bld, column_offset, ip_number,
                                            w.v[1], w.v[2], MaxProbe)
                 ELSE px_ipv4_loop(d, bld, column_offset, ip_number,
                                   U32(0), d.ipv4_db_count, MaxProbe)

RECURSIVE px_ipv6_loop(_, _, _, _, _, _, _)
px_ipv6_iter(d, bld, column_offset, ip_address, low, high, fuel) ==
    IF ~U32Le(low, high) THEN Err("RecordNotFound")
    ELSE IF fuel = 0 THEN Diverge
    ELSE IF bld = "debug" /\ AddOvf(low, high) THEN Panic
    ELSE LET b   == Blob(d.src)
             mid == U32Shr1(U32Add(low, high))
             m1  == U32Add(mid, U32(column_offset))
             row_offset == U32Add(d.ipv6_db_addr, m1)
         IN  IF bld = "debug" /\ (AddOvf(mid, U32(column_offset)) \/ AddOvf(d.ipv6_db_addr, m1))
             THEN Panic
             ELSE LET ip_from == read_ipv6(b, Off(row_offset))
                  IN  IF ~IsOk(ip_from) THEN ip_from
                      ELSE IF bld = "debug" /\ AddOvf(row_offset, U32(column_offset)) THEN Panic
                      ELSE LET ip_to == read_ipv6(b, Off(U32Add(row_offset, U32(column_offset))))
                           IN  IF ~IsOk(ip_to) THEN ip_to
                               ELSE IF V6Lt(ip_from.v, ip_address) /\ V6Lt(ip_address, ip_to.v)
                               THEN (IF bld = "debug" /\ AddOvf(row_offset, U32(16)) THEN Panic
                                     ELSE px_read_record(d, U32Add(row_offset, U32(16))))
                               ELSE IF V6Lt(ip_address, ip_from.v)
                               THEN (IF bld = "debug" /\ DecOvf(mid) THEN Panic
                                     ELSE px_ipv6_loop(d, bld, column_offset, ip_address, low,
                                                       U32Dec(mid), fuel - 1))
                               ELSE px_ipv6_loop(d, bld, column_offset, ip_address,
                                                 U32Add(mid, U32(1)), high, fuel - 1)

\* one pass of the loop, its variables bound to their values
px_ipv6_loop(d, bld, column_offset, ip_address, low, high, fuel) ==
    LET pass == { px_ipv6_iter(d, bld, column_offset, ip_address, s[1], s[2], s[3]) : s \in {<<low, high, fuel>>} }
    IN  CHOOSE r \in pass : TRUE

get_ipv6_record(d, bld, ip_address) ==
    \* column_offset = database_column * 4 + 12, in u8
    IF bld = "debug" /\ d.db_column * 4 + 12 >= U8 THEN Panic
    ELSE LET column_offset == (((d.db_column * 4) % U8) + 12) % U8
             ipv6_index_base_address == d.ipv4_index_base_addr
         IN  IF d.ipv6_db_count = U32(0) THEN Ok(PxDefault)
             ELSE IF U32Lt(U32(0), ipv6_index_base_address)
             THEN LET w == IndexWindow(Blob(d.src), bld, ipv6_index_base_address,
                                       V6KeyShl3(ip_address))
                  IN  IF ~IsOk(w) THEN w
                      ELSE px_ipv6_loop(d, bld, column_offset, ip_address,
                                        w.v[1], w.v[2], MaxProbe)
             ELSE px_ipv6_loop(d, bld, column_offset, ip_address,
                               U32(0), d.ipv6_db_count, MaxProbe)

(***************************************************************************)
(* ip_lookup: canonicalisation and dispatch                                *)
(***************************************************************************)
FROM_6TO4 == V6(8194, 0, 0, 0, 0, 0, 0, 0).o

TO_6TO4 == V6(8194, 65535, 65535, 65535, 65535, 65535, 65535, 65535).o

FROM_TEREDO == V6(8193, 0, 0, 0, 0, 0, 0, 0).o

TO_TEREDO == V6(8193, 0, 65535, 65535, 65535, 65535, 65535, 65535).o

\* Ipv6Addr::to_ipv4: Some(a.b.c.d) for ::a.b.c.d and for ::ffff:a.b.c.d
to_ipv4(o) ==
    IF (\A i \in 1..10 : o[i] = 0) /\ ((o[11] = 0 /\ o[12] = 0) \/ (o[11] = 255 /\ o[12] = 255))
    THEN Some(<<o[13], o[14], o[15], o[16]>>)
    ELSE None

\* Canonicalise with the Teredo arm taking the trailing 32 bits as they are
Canonicalise_teredo_plain(ip) ==
    IF ip.v = 4 THEN [table |-> "v4", n |-> U32OfOctets(ip.o)]
    ELSE IF to_ipv4(ip.o) # None THEN [table |-> "v4", n |-> U32OfOctets(to_ipv4(ip.o)[1])]
    ELSE IF V6Le(FROM_6TO4, ip.o) /\ V6Le(ip.o, TO_6TO4)
    THEN [table |-> "v4", n |-> U32OfOctets(<<ip.o[3], ip.o[4], ip.o[5], ip.o[6]>>)]
    ELSE IF V6Le(FROM_TEREDO, ip.o) /\ V6Le(ip.o, TO_TEREDO)
    THEN [table |-> "v4", n |-> U32OfOctets(<<ip.o[13], ip.o[14], ip.o[15], ip.o[16]>>)]
    ELSE [table |-> "v6", n |-> ip.o]

\* the arm of ip_lookup an address takes: the table searched and the target
Canonicalise(ip) ==
    IF ip.v = 4 THEN [table |-> "v4", n |-> U32OfOctets(ip.o)]
    ELSE IF to_ipv4(ip.o) # None THEN [table |-> "v4", n |-> U32OfOctets(to_ipv4(ip.o)[1])]
    ELSE IF V6Le(FROM_6TO4, ip.o) /\ V6Le(ip.o, TO_6TO4)
    THEN \* (u128 >> 80) as u32
         [table |-> "v4", n |-> U32OfOctets(<<ip.o[3], ip.o[4], ip.o[5], ip.o[6]>>)]
    ELSE IF V6Le(FROM_TEREDO, ip.o) /\ V6Le(ip.o, TO_TEREDO)
    THEN \* !u128 as u32
         [table |-> "v4", n |-> U32OfOctets(<<255 - ip.o[13], 255 - ip.o[14],
                                             255 - ip.o[15], 255 - ip.o[16]>>)]
    ELSE [table |-> "v6", n |-> ip.o]

\* SetIp without the assignment
SetIp_dropped(r, ip) == r

\* record.ip = ip
SetIp(r, ip) == IF IsOk(r) THEN Ok([r.v EXCEPT !.ip = ip]) ELSE r

loc_ip_lookup(d, bld, ip) ==
    LET c == Canonicalise(ip)
    IN  IF c.table = "v4" THEN SetIp(loc_ipv4_lookup(d, bld, c.n), ip)
        ELSE SetIp(loc_ipv6_lookup(d, bld, c.n), ip)

px_ip_lookup(d, bld, ip) ==
    LET c == Canonicalise(ip)
    IN  IF c.table = "v4" THEN SetIp(get_ipv4_record(d, bld, c.n), ip)
        ELSE SetIp(get_ipv6_record(d, bld, c.n), ip)

\* DB::ip_lookup
ip_lookup(d, bld, ip) ==
    IF d.family = "location" THEN loc_ip_lookup(d, bld, ip) ELSE px_ip_lookup(d, bld, ip)

(***************************************************************************)
(* The state machine: open the file, then look addresses up.               *)
(***************************************************************************)
NotYet == [tag |-> "NotYet", v |-> <<>>, err |-> "none"]

Builds == {"debug", "release"}

Addrs ==
    { V4(0, 0, 0, 0), V4(0, 0, 0, 1), V4(0, 1, 0, 0), V4(0, 1, 0, 5), V4(0, 2, 0, 0),
      V4(0, 3, 0, 9), V4(0, 255, 255, 255), V4(1, 0, 0, 0), V4(1, 2, 3, 4),
      V4(2, 0, 0, 0), V4(3, 0, 0, 0), V4(3, 0, 0, 1), V4(200, 1, 2, 3),
      V4(255, 255, 255, 254), V4(255, 255, 255, 255),
      V6(0, 0, 0, 0, 0, 0, 0, 0),                      \* ::
      V6(0, 0, 0, 0, 0, 0, 0, 1),                      \* ::1
      V6(0, 0, 0, 0, 0, 0, 258, 772),                  \* ::1.2.3.4
      V6(0, 0, 0, 0, 0, 65535, 258, 772),              \* ::ffff:1.2.3.4
      V6(0, 0, 0, 0, 0, 65535, 65535, 65535),          \* ::ffff:255.255.255.255
      V6(0, 0, 0, 0, 1, 65535, 258, 772),              \* ::1:ffff:1.2.3.4
      V6(1, 0, 0, 0, 0, 0, 0, 0),                      \* 1::
      V6(1, 0, 0, 0, 0, 0, 0, 5),                      \* 1::5
      V6(2, 0, 0, 0, 0, 0, 0, 7),                      \* 2::7
      V6(3, 0, 0, 0, 0, 0, 0, 0),                      \* 3::
      V6(8194, 258, 772, 0, 0, 0, 0, 9),               \* 2002:0102:0304::9
      V6(8194, 0, 1, 512, 0, 0, 0, 0),                 \* 2002:0:1:200::
      V6(8193, 0, 0, 0, 0, 0, 65277, 64763),           \* 2001:0::fefd:fcfb
      V6(8193, 0, 4660, 0, 0, 0, 0, 0),                \* 2001:0:1234::
      V6(8193, 1, 0, 0, 0, 0, 65277, 64763),           \* 2001:1::fefd:fcfb
      V6(8191, 0, 0, 0, 0, 0, 0, 0),                   \* 1fff::
      V6(8192, 0, 0, 0, 0, 0, 0, 0),                   \* 2000::
      V6(8192, 0, 0, 0, 0, 0, 0, 5),                   \* 2000::5
      V6(10753, 0, 0, 0, 0, 0, 0, 0),                  \* 2a01::
      V6(10753, 0, 0, 0, 0, 0, 0, 1),                  \* 2a01::1
      V6(12288, 0, 0, 0, 0, 0, 0, 1),                  \* 3000::1
      V6Max }

NoRead == [impl |-> "none", op |-> "none", off |-> 0, res |-> NotYet]

\* the threads that look addresses up on one handle
Threads == {1, 2}

\* a thread that is not in a lookup
Idle ==
    [pc |-> "idle", ip |-> Unspecified, table |-> "none", key |-> <<>>,
     low |-> U32(0), high |-> U32(0), out |-> NotYet]

NoLookups == [t \in Threads |-> Idle]

\* the lookups on gapc0, which do not all return, are followed pass by pass
\* in ConcSpec below
Init ==
    /\ disk = BlobTable
    /\ file \in Files \ {"gapc0"}
    /\ build \in Builds
    /\ opened = NotYet
    /\ query = Unspecified
    /\ result = NotYet
    /\ rd = NoRead
    /\ lk = NoLookups

\* DB::from_file(file)
Open ==
    /\ opened.tag = "NotYet"
    /\ opened' = from_file(file)
    /\ UNCHANGED <<disk, file, build, query, result, rd, lk>>

\* a lookup that gives up the handle when it fails
Lookup_invalidating(ip) ==
    /\ IsOk(opened)
    /\ query' = ip
    /\ result' = ip_lookup(opened.v, build, ip)
    /\ opened' = IF IsOk(ip_lookup(opened.v, build, ip)) THEN opened
                 ELSE ip_lookup(opened.v, build, ip)
    /\ UNCHANGED <<disk, file, build, rd, lk>>

\* db.ip_lookup(ip) on the handle open returned
Lookup(ip) ==
    /\ IsOk(opened)
    /\ query' = ip
    /\ result' = ip_lookup(opened.v, build, ip)
    /\ UNCHANGED <<disk, file, build, opened, rd, lk>>

Next == Open \/ \E ip \in Addrs : Lookup(ip)

Spec == Init /\ [][Next]_vars

(***************************************************************************)
(* The blob readers called on their own: Source of common.rs, and DB of    *)
(* lib.rs in its memory-mapped and its file mode.                          *)
(***************************************************************************)
Impls == {"Source", "LibMmap", "LibFile"}

ReadOps == {"read_u8", "read_u32", "read_f32", "read_str", "read_ipv6"}

\* the files the readers are called on
ReadFiles == {"loc1", "px2", "ff64", "short10", "short1"}

\* offsets at both ends of a blob of length n, and past it
ReadOffsets(n) ==
    {o \in {0, 1, 2, n - 16, n - 15, n - 4, n - 3, n - 2, n, n + 1} : o >= 0}

Call(impl, op, bld, b, o) ==
    IF impl = "Source"
    THEN CASE op = "read_u8"   -> read_u8(b, o)
           [] op = "read_u32"  -> read_u32(b, o)
           [] op = "read_f32"  -> read_f32(b, o)
           [] op = "read_str"  -> read_str(b, o)
           [] op = "read_ipv6" -> read_ipv6(b, o)
    ELSE LET mode == IF impl = "LibMmap" THEN "mmap" ELSE "file"
         IN  CASE op = "read_u8"   -> lib_read_u8(mode, bld, b, o)
               [] op = "read_u32"  -> lib_read_u32(mode, bld, b, o)
               [] op = "read_f32"  -> lib_read_f32(mode, bld, b, o)
               [] op = "read_str"  -> lib_read_str(mode, bld, b, o)
               [] op = "read_ipv6" -> lib_read_ipv6(mode, bld, b, o)

InitRead ==
    /\ disk = BlobTable
    /\ file \in ReadFiles
    /\ build \in Builds
    /\ opened = NotYet
    /\ query = Unspecified
    /\ result = NotYet
    /\ rd = NoRead
    /\ lk = NoLookups

\* one call of a reader on the bytes of the file
BlobRead(impl, op, o) ==
    /\ rd' = [impl |-> impl, op |-> op, off |-> o, res |-> Call(impl, op, build, Blob(file), o)]
    /\ UNCHANGED <<disk, file, build, opened, query, result, lk>>

NextRead ==
    \E impl \in Impls, op \in ReadOps, o \in ReadOffsets(Len(Blob(file))) :
        BlobRead(impl, op, o)

ReaderSpec == InitRead /\ [][NextRead]_vars

(***************************************************************************)
(* Lookups running side by side on one handle.  A lookup keeps its loop    *)
(* variables on its own stack; a step of a thread is the code before the   *)
(* loop or one pass of the loop, with the reads of the pass.               *)
(***************************************************************************)
\* a pass that ends the search with an outcome
Fin(r) == [done |-> TRUE, res |-> r, low |-> U32(0), high |-> U32(0)]

\* a pass that leaves the loop variables for the next pass
Go(low, high) == [done |-> FALSE, res |-> NotYet, low |-> low, high |-> high]

\* one pass of `while low <= high` of LocationDB::ipv4_lookup
loc_ipv4_pass(d, bld, ip_number, low, high) ==
    IF ~U32Le(low, high) THEN Fin(Err("RecordNotFound"))
    ELSE IF bld = "debug" /\ AddOvf(low, high) THEN Fin(Panic)
    ELSE LET b    == Blob(d.src)
             mid  == U32Shr1(U32Add(low, high))
             rowA == LocRow4(d, mid)
             rowB == LocRow4(d, U32Add(mid, U32(1)))
         IN  IF bld = "debug" /\ rowA[1] THEN Fin(Panic)
             ELSE LET ip_from == read_u32(b, Off(rowA[2]))
                  IN  IF ~IsOk(ip_from) THEN Fin(ip_from)
                      ELSE IF bld = "debug" /\ rowB[1] THEN Fin(Panic)
                      ELSE LET ip_to == read_u32(b, Off(rowB[2]))
                           IN  IF ~IsOk(ip_to) THEN Fin(ip_to)
                               ELSE IF U32Le(ip_from.v, ip_number) /\ U32Lt(ip_number, ip_to.v)
                               THEN Fin(loc_read_record(d, bld, rowA[2]))
                               ELSE IF U32Lt(ip_number, ip_from.v)
                               THEN (IF bld = "debug" /\ DecOvf(mid) THEN Fin(Panic)
                                     ELSE Go(low, U32Dec(mid)))
                               ELSE Go(U32Add(mid, U32(1)), high)

\* one pass of `while low <= high` of LocationDB::ipv6_lookup
loc_ipv6_pass(d, bld, ipv6, low, high) ==
    IF ~U32Le(low, high) THEN Fin(Err("RecordNotFound"))
    ELSE IF bld = "debug" /\ AddOvf(low, high) THEN Fin(Panic)
    ELSE LET b    == Blob(d.src)
             mid  == U32Shr1(U32Add(low, high))
             rowA == LocRow6(d, mid)
             rowB == LocRow6(d, U32Add(mid, U32(1)))
         IN  IF bld = "debug" /\ rowA[1] THEN Fin(Panic)
             ELSE LET ip_from == read_ipv6(b, Off(rowA[2]))
                  IN  IF ~IsOk(ip_from) THEN Fin(ip_from)
                      ELSE IF bld = "debug" /\ rowB[1] THEN Fin(Panic)
                      ELSE LET ip_to == read_ipv6(b, Off(rowB[2]))
                           IN  IF ~IsOk(ip_to) THEN Fin(ip_to)
                               ELSE IF V6Le(ip_from.v, ipv6) /\ V6Lt(ipv6, ip_to.v)
                               THEN (IF bld = "debug" /\ AddOvf(rowA[2], U32(12))
                                     THEN Fin(Panic)
                                     ELSE Fin(loc_read_record(d, bld, U32Add(rowA[2], U32(12)))))
                               ELSE IF V6Lt(ipv6, ip_from.v)
                               THEN (IF bld = "debug" /\ DecOvf(mid) THEN Fin(Panic)
                                     ELSE Go(low, U32Dec(mid)))
                               ELSE Go(U32Add(mid, U32(1)), high)

\* one pass of `while low <= high` of ProxyDB::get_ipv4_record
px_ipv4_pass(d, bld, ip_number, low, high) ==
    IF ~U32Le(low, high) THEN Fin(Err("RecordNotFound"))
    ELSE IF bld = "debug" /\ AddOvf(low, high) THEN Fin(Panic)
    ELSE LET b   == Blob(d.src)
             column_offset == (d.db_column * 4) % U8
             mid == U32Shr1(U32Add(low, high))
             m1  == U32Mul(mid, column_offset)
             row_offset == U32Add(d.ipv4_db_addr, m1)
         IN  IF bld = "debug" /\ (MulOvf(mid, column_offset) \/ AddOvf(d.ipv4_db_addr, m1))
             THEN Fin(Panic)
             ELSE LET ip_from == read_u32(b, Off(row_offset))
                      ip_to   == read_u32(b, Off(row_offset) + column_offset)
                  IN  IF ~IsOk(ip_from) THEN Fin(ip_from)
                      ELSE IF ~IsOk(ip_to) THEN Fin(ip_to)
                      ELSE IF U32Le(ip_from.v, ip_number) /\ U32Lt(ip_number, ip_to.v)
                      THEN (IF bld = "debug" /\ AddOvf(row_offset, U32(4)) THEN Fin(Panic)
                            ELSE Fin(px_read_record(d, U32Add(row_offset, U32(4)))))
                      ELSE IF U32Lt(ip_number, ip_from.v)
                      THEN (IF bld = "debug" /\ DecOvf(mid) THEN Fin(Panic)
                            ELSE Go(low, U32Dec(mid)))
                      ELSE Go(U32Add(mid, U32(1)), high)

\* one pass of `while low <= high` of ProxyDB::get_ipv6_record
px_ipv6_pass(d, bld, ip_address, low, high) ==
    IF ~U32Le(low, high) THEN Fin(Err("RecordNotFound"))
    ELSE IF bld = "debug" /\ AddOvf(low, high) THEN Fin(Panic)
    ELSE LET b   == Blob(d.src)
             column_offset == (((d.db_column * 4) % U8) + 12) % U8
             mid == U32Shr1(U32Add(low, high))
             m1  == U32Add(mid, U32(column_offset))
             row_offset == U32Add(d.ipv6_db_addr, m1)
         IN  IF bld = "debug" /\ (AddOvf(mid, U32(column_offset)) \/ AddOvf(d.ipv6_db_addr, m1))
             THEN Fin(Panic)
             ELSE LET ip_from == read_ipv6(b, Off(row_offset))
                  IN  IF ~IsOk(ip_from) THEN Fin(ip_from)
                      ELSE IF bld = "debug" /\ AddOvf(row_offset, U32(column_offset))
                      THEN Fin(Panic)
                      ELSE LET ip_to == read_ipv6(b, Off(U32Add(row_offset, U32(column_offset))))
                           IN  IF ~IsOk(ip_to) THEN Fin(ip_to)
                               ELSE IF V6Lt(ip_from.v, ip_address) /\ V6Lt(ip_address, ip_to.v)
                               THEN (IF bld = "debug" /\ AddOvf(row_offset, U32(16))
                                     THEN Fin(Panic)
                                     ELSE Fin(px_read_record(d, U32Add(row_offset, U32(16)))))
                               ELSE IF V6Lt(ip_address, ip_from.v)
                               THEN (IF bld = "debug" /\ DecOvf(mid) THEN Fin(Panic)
                                     ELSE Go(low, U32Dec(mid)))
                               ELSE Go(U32Add(mid, U32(1)), high)


\* the window the code before the loop of a search sets up, or the outcome
\* when the search ends before the loop
SearchStart(d, bld, table, key) ==
    LET index4 == IndexWindow(Blob(d.src), bld, d.ipv4_index_base_addr, U32Hi16Shl3(key))
    IN  IF d.family = "location"
        THEN IF table = "v4"
             THEN IF U32Lt(U32(0), d.ipv4_index_base_addr)
                  THEN (IF ~IsOk(index4) THEN Fin(index4) ELSE Go(index4.v[1], index4.v[2]))
                  ELSE Go(U32(0), d.ipv4_db_count)
             ELSE IF U32Lt(U32(0), d.ipv6_index_base_addr)
                  THEN LET w == IndexWindow(Blob(d.src), bld, d.ipv6_index_base_addr,
                                            V6KeyShl3(key))
                       IN  IF ~IsOk(w) THEN Fin(w) ELSE Go(w.v[1], w.v[2])
                  ELSE Go(U32(0), d.ipv6_db_count)
        ELSE IF table = "v4"
             THEN IF bld = "debug" /\ d.db_column * 4 >= U8 THEN Fin(Panic)
                  ELSE IF U32Lt(U32(0), d.ipv4_index_base_addr)
                  THEN (IF ~IsOk(index4) THEN Fin(index4) ELSE Go(index4.v[1], index4.v[2]))
                  ELSE Go(U32(0), d.ipv4_db_count)
             ELSE IF bld = "debug" /\ d.db_column * 4 + 12 >= U8 THEN Fin(Panic)
                  ELSE IF d.ipv6_db_count = U32(0) THEN Fin(Ok(PxDefault))
                  ELSE IF U32Lt(U32(0), d.ipv4_index_base_addr)
                  THEN LET w == IndexWindow(Blob(d.src), bld, d.ipv4_index_base_addr,
                                            V6KeyShl3(key))
                       IN  IF ~IsOk(w) THEN Fin(w) ELSE Go(w.v[1], w.v[2])
                  ELSE Go(U32(0), d.ipv6_db_count)

\* one pass of the loop of the search the lookup is in
SearchPass(d, bld, table, key, low, high) ==
    IF d.family = "location"
    THEN (IF table = "v4" THEN loc_ipv4_pass(d, bld, key, low, high)
          ELSE loc_ipv6_pass(d, bld, key, low, high))
    ELSE (IF table = "v4" THEN px_ipv4_pass(d, bld, key, low, high)
          ELSE px_ipv6_pass(d, bld, key, low, high))

\* the local variables of a lookup of ip after step s of its search
After(ip, table, key, s) ==
    [pc    |-> IF s.done THEN "done" ELSE "search",
     ip    |-> ip,
     table |-> table,
     key   |-> key,
     low   |-> s.low,
     high  |-> s.high,
     out   |-> IF s.done THEN SetIp(s.res, ip) ELSE NotYet]

\* the files and the addresses of the lookups that run side by side
ConcFiles == {"loc1", "loc1gap", "px2", "px1v6", "px1gap", "gapc0", "pxc64"}

ConcAddrs ==
    { V4(0, 0, 0, 0), V4(1, 2, 3, 4), V4(255, 255, 255, 255),
      V6(8193, 0, 0, 0, 0, 0, 65277, 64763),
      V6(10753, 0, 0, 0, 0, 0, 0, 1),
      V6(12288, 0, 0, 0, 0, 0, 0, 1) }

InitConc ==
    /\ disk = BlobTable
    /\ file \in ConcFiles
    /\ build \in Builds
    /\ opened = NotYet
    /\ query = Unspecified
    /\ result = NotYet
    /\ rd = NoRead
    /\ lk = NoLookups

\* thread t calls ip_lookup(ip): the dispatch on the address and the code
\* before the loop
Begin(t, ip) ==
    /\ IsOk(opened)
    /\ lk[t].pc # "search"
    /\ LET c   == Canonicalise(ip)
           key == IF c.table = "v4" THEN ClampMax(c.n) ELSE c.n
       IN  lk' = [lk EXCEPT ![t] =
                      After(ip, c.table, key, SearchStart(opened.v, build, c.table, key))]
    /\ UNCHANGED <<disk, file, build, opened, query, result, rd>>

\* a pass whose loop variables are one pair for all the threads
Pass_shared(t) ==
    /\ lk[t].pc = "search"
    /\ LET s == SearchPass(opened.v, build, lk[t].table, lk[t].key, lk[t].low, lk[t].high)
       IN  lk' = [u \in Threads |->
                     IF u = t THEN After(lk[t].ip, lk[t].table, lk[t].key, s)
                     ELSE IF lk[u].pc = "search" /\ ~s.done
                     THEN [lk[u] EXCEPT !.low = s.low, !.high = s.high]
                     ELSE lk[u]]
    /\ UNCHANGED <<disk, file, build, opened, query, result, rd>>

\* thread t runs one pass of its loop
Pass(t) ==
    /\ lk[t].pc = "search"
    /\ lk' = [lk EXCEPT ![t] =
                  After(lk[t].ip, lk[t].table, lk[t].key,
                        SearchPass(opened.v, build, lk[t].table, lk[t].key,
                                   lk[t].low, lk[t].high))]
    /\ UNCHANGED <<disk, file, build, opened, query, result, rd>>

NextConc ==
    \/ Open
    \/ \E t \in Threads, ip \in ConcAddrs : Begin(t, ip)
    \/ \E t \in Threads : Pass(t)

ConcSpec == InitConc /\ [][NextConc]_vars

(***************************************************************************)
(* The DB of lib.rs: its own open, and its range searches.  A hit is kept  *)
(* as the row offset the search hands to read_record.                      *)
(***************************************************************************)
\* the reads of DB::read_header of lib.rs, in order: <<width, offset>>
LibHeaderReads ==
    << <<1, 1>>, <<1, 2>>, <<1, 3>>, <<1, 4>>, <<1, 5>>, <<4, 6>>, <<4, 10>>, <<4, 14>>,
       <<4, 18>>, <<4, 22>>, <<4, 26>> >>

\* DB::from_file (mode "file") and DB::from_file_mmap (mode "mmap") of
\* lib.rs: open or map the file, then read_header; no validation
lib_from_file(mode, bld, f) ==
    IF ~Exists(f)
    THEN ErrWith("IoError", <<"Error opening DB file: No such file or directory (os error 2)">>)
    ELSE LET b     == Blob(f)
             rs    == [i \in 1..Len(LibHeaderReads) |->
                          IF LibHeaderReads[i][1] = 1
                          THEN lib_read_u8(mode, bld, b, LibHeaderReads[i][2])
                          ELSE lib_read_u32(mode, bld, b, LibHeaderReads[i][2])]
             bad   == {i \in 1..Len(rs) : ~IsOk(rs[i])}
         IN  IF bad # {} THEN rs[CHOOSE i \in bad : \A j \in bad : i <= j]
             ELSE Ok([family               |-> "lib",
                      mode                 |-> mode,
                      src                  |-> f,
                      db_type              |-> rs[1].v,
                      db_column            |-> rs[2].v,
                      db_year              |-> rs[3].v,
                      ipv4_db_count        |-> rs[6].v,
                      ipv4_db_addr         |-> rs[7].v,
                      ipv6_db_count        |-> rs[8].v,
                      ipv6_db_addr         |-> rs[9].v,
                      ipv4_index_base_addr |-> rs[10].v,
                      ipv6_index_base_addr |-> rs[11].v])

\* Err("no record found".into())
NoRecordFound == ErrWith("GenericError", <<"no record found">>)

\* the window of the index, read with the readers of lib.rs
LibIndexWindow(d, bld, base, kShl3) ==
    IF bld = "debug" /\ AddOvf(kShl3, base) THEN Panic
    ELSE LET index == U32Add(kShl3, base)
             low   == lib_read_u32(d.mode, bld, Blob(d.src), Off(index))
         IN  IF ~IsOk(low) THEN low
             ELSE IF bld = "debug" /\ AddOvf(index, U32(4)) THEN Panic
             ELSE LET high == lib_read_u32(d.mode, bld, Blob(d.src), Off(U32Add(index, U32(4))))
                  IN  IF ~IsOk(high) THEN high
                      ELSE Ok(<<low.v, high.v>>)

RECURSIVE lib_ipv4_loop(_, _, _, _, _, _)
\* one pass of `while low < high` of DB::ipv4_lookup of lib.rs
lib_ipv4_iter(d, bld, ip_number, low, high, fuel) ==
    IF ~U32Lt(low, high) THEN NoRecordFound
    ELSE IF fuel = 0 THEN Diverge
    ELSE IF bld = "debug" /\ AddOvf(low, high) THEN Panic
    ELSE LET b    == Blob(d.src)
             mid  == U32Shr1(U32Add(low, high))
             rowA == LocRow4(d, mid)
             rowB == LocRow4(d, U32Add(mid, U32(1)))
         IN  IF bld = "debug" /\ rowA[1] THEN Panic
             ELSE LET ip_from == lib_read_u32(d.mode, bld, b, Off(rowA[2]))
                  IN  IF ~IsOk(ip_from) THEN ip_from
                      ELSE IF bld = "debug" /\ rowB[1] THEN Panic
                      ELSE LET ip_to == lib_read_u32(d.mode, bld, b, Off(rowB[2]))
                           IN  IF ~IsOk(ip_to) THEN ip_to
                               ELSE IF U32Le(ip_from.v, ip_number) /\ U32Lt(ip_number, ip_to.v)
                               THEN Ok([row_addr |-> rowA[2]])
                               ELSE IF U32Lt(ip_number, ip_from.v)
                               THEN (IF bld = "debug" /\ DecOvf(mid) THEN Panic
                                     ELSE lib_ipv4_loop(d, bld, ip_number, low, U32Dec(mid),
                                                        fuel - 1))
                               ELSE lib_ipv4_loop(d, bld, ip_number, U32Add(mid, U32(1)), high,
                                                  fuel - 1)

lib_ipv4_loop(d, bld, ip_number, low, high, fuel) ==
    LET pass == { lib_ipv4_iter(d, bld, ip_number, s[1], s[2], s[3]) : s \in {<<low, high, fuel>>} }
    IN  CHOOSE r \in pass : TRUE

\* DB::ipv4_lookup of lib.rs
lib_ipv4_lookup(d, bld, ip_in) ==
    LET ip_number == ClampMax(ip_in)
    IN  IF U32Lt(U32(0), d.ipv4_index_base_addr)
        THEN LET w == LibIndexWindow(d, bld, d.ipv4_index_base_addr, U32Hi16Shl3(ip_number))
             IN  IF ~IsOk(w) THEN w
                 ELSE lib_ipv4_loop(d, bld, ip_number, w.v[1], w.v[2], MaxProbe)
        ELSE lib_ipv4_loop(d, bld, ip_number, U32(0), d.ipv4_db_count, MaxProbe)

RECURSIVE lib_ipv6_loop(_, _, _, _, _, _)
\* one pass of `while low < high` of DB::ipv6_lookup of lib.rs
lib_ipv6_iter(d, bld, ipv6, low, high, fuel) ==
    IF ~U32Lt(low, high) THEN NoRecordFound
    ELSE IF fuel = 0 THEN Diverge
    ELSE IF bld = "debug" /\ AddOvf(low, high) THEN Panic
    ELSE LET b    == Blob(d.src)
             mid  == U32Shr1(U32Add(low, high))
             rowA == LocRow6(d, mid)
             rowB == LocRow6(d, U32Add(mid, U32(1)))
         IN  IF bld = "debug" /\ rowA[1] THEN Panic
             ELSE LET ip_from == lib_read_ipv6(d.mode, bld, b, Off(rowA[2]))
                  IN  IF ~IsOk(ip_from) THEN ip_from
                      ELSE IF bld = "debug" /\ rowB[1] THEN Panic
                      ELSE LET ip_to == lib_read_ipv6(d.mode, bld, b, Off(rowB[2]))
                           IN  IF ~IsOk(ip_to) THEN ip_to
                               ELSE IF V6Le(ip_from.v, ipv6) /\ V6Lt(ipv6, ip_to.v)
                               THEN (IF bld = "debug" /\ AddOvf(rowA[2], U32(12)) THEN Panic
                                     ELSE Ok([row_addr |-> U32Add(rowA[2], U32(12))]))
                               ELSE IF V6Lt(ipv6, ip_from.v)
                               THEN (IF bld = "debug" /\ DecOvf(mid) THEN Panic
                                     ELSE lib_ipv6_loop(d, bld, ipv6, low, U32Dec(mid), fuel - 1))
                               ELSE lib_ipv6_loop(d, bld, ipv6, U32Add(mid, U32(1)), high,
                                                  fuel - 1)

lib_ipv6_loop(d, bld, ipv6, low, high, fuel) ==
    LET pass == { lib_ipv6_iter(d, bld, ipv6, s[1], s[2], s[3]) : s \in {<<low, high, fuel>>} }
    IN  CHOOSE r \in pass : TRUE

\* DB::ipv6_lookup of lib.rs
lib_ipv6_lookup(d, bld, ipv6) ==
    IF U32Lt(U32(0), d.ipv6_index_base_addr)
    THEN LET w == LibIndexWindow(d, bld, d.ipv6_index_base_addr, V6KeyShl3(ipv6))
         IN  IF ~IsOk(w) THEN w
             ELSE lib_ipv6_loop(d, bld, ipv6, w.v[1], w.v[2], MaxProbe)
    ELSE lib_ipv6_loop(d, bld, ipv6, U32(0), d.ipv6_db_count, MaxProbe)

\* DB::ip_lookup of lib.rs, of the address the text parses to: an IPv4
\* address is searched in the IPv4 table, an IPv6 address in the IPv6 table
lib_ip_lookup(d, bld, ip) ==
    IF ip.v = 4 THEN lib_ipv4_lookup(d, bld, U32OfOctets(ip.o))
    ELSE lib_ipv6_lookup(d, bld, ip.o)

LibModes == {"file", "mmap"}

LibFiles == {"loc1", "loc1gap", "loc1idx", "legacy", "missing"}

InitLib ==
    /\ disk = BlobTable
    /\ file \in LibFiles
    /\ build \in Builds
    /\ opened = NotYet
    /\ query = Unspecified
    /\ result = NotYet
    /\ rd = NoRead
    /\ lk = NoLookups

\* DB::from_file(file) or DB::from_file_mmap(file) of lib.rs
LibOpen(mode) ==
    /\ opened.tag = "NotYet"
    /\ opened' = lib_from_file(mode, build, file)
    /\ UNCHANGED <<disk, file, build, query, result, rd, lk>>

\* db.ip_lookup(ip) on the handle of lib.rs
LibLookup(ip) ==
    /\ IsOk(opened)
    /\ query' = ip
    /\ result' = lib_ip_lookup(opened.v, build, ip)
    /\ UNCHANGED <<disk, file, build, opened, rd, lk>>

NextLib == (\E mode \in LibModes : LibOpen(mode)) \/ (\E ip \in Addrs : LibLookup(ip))

LibSpec == InitLib /\ [][NextLib]_vars

(***************************************************************************)
(* What the specification says of a file and an address, stated without    *)
(* the search: the rows of a well-formed file, the row whose range holds   *)
(* an address, the IPv4 address embedded in an IPv6 address.               *)
(***************************************************************************)
\* the files whose range-begins are sorted, whose ranges do not overlap and
\* whose tables and string pointers are inside the file
WellFormed ==
    {"loc1", "loc1v4", "loc1gap", "loc5", "px1", "px1gap", "px1v6", "px2", "legacy"}

Rows4(f) == Layout(f)[5]

Rows6(f) == Layout(f)[6]

\* unsigned order on addresses of the same length, most significant octet first
OctLt(a, b) == \E i \in 1..Len(a) : a[i] < b[i] /\ \A j \in 1..(i - 1) : a[j] = b[j]

OctLe(a, b) == a = b \/ OctLt(a, b)

\* the rows i (counted from 1) with range-begin(i) <= a < range-begin(i + 1)
Covering(rows, a) ==
    {i \in 1..(Len(rows) - 1) : OctLe(rows[i][1].o, a) /\ OctLt(a, rows[i + 1][1].o)}

\* the IPv4 search replaces 255.255.255.255 by 255.255.255.254
SearchedV4(o) == IF o = <<255, 255, 255, 255>> THEN <<255, 255, 255, 254>> ELSE o

IsMapped(o) == (\A i \in 1..10 : o[i] = 0) /\ o[11] = 255 /\ o[12] = 255

Is6to4(o) == o[1] = 32 /\ o[2] = 2

IsTeredo(o) == o[1] = 32 /\ o[2] = 1 /\ o[3] = 0 /\ o[4] = 0

Embedded(o) == IsMapped(o) \/ Is6to4(o) \/ IsTeredo(o)

\* the IPv4 address an embedding IPv6 address stands for
Extracted(o) ==
    IF IsMapped(o) THEN <<o[13], o[14], o[15], o[16]>>
    ELSE IF Is6to4(o) THEN <<o[3], o[4], o[5], o[6]>>
    ELSE <<255 - o[13], 255 - o[14], 255 - o[15], 255 - o[16]>>

\* no row of the table the address belongs to covers it
Uncovered(f, ip) ==
    IF ip.v = 4 THEN Covering(Rows4(f), SearchedV4(ip.o)) = {}
    ELSE IF Embedded(ip.o) THEN Covering(Rows4(f), SearchedV4(Extracted(ip.o))) = {}
    ELSE Covering(Rows6(f), ip.o) = {}

\* the record read_record makes of row i of the IPv4 table
RowRecord4(d, bld, i) ==
    LET row == U32(Off(d.ipv4_db_addr) + (i - 1) * d.db_column * 4)
    IN  IF d.family = "location" THEN loc_read_record(d, bld, row)
        ELSE px_read_record(d, U32Add(row, U32(4)))

\* the pool entry the cell of column pos of row i of the IPv4 table points to
CellName(f, i, pos) == Rows4(f)[i][2][pos - 1][2]

\* an outcome without the ip field of the record
Outcome(r) == IF IsOk(r) THEN Ok([r.v EXCEPT !.ip = Unspecified]) ELSE r

Looked == result.tag # "NotYet"

(***************************************************************************)
(* The claims                                                              *)
(***************************************************************************)
\* a search never runs out of the probes the model allows
NeverDiverges == result.tag # "Diverge"

\* C1: in a well-formed file, a record returned for an IPv4 address comes
\* from the one row i with range-begin(i) <= v < range-begin(i + 1), in both
\* families (255.255.255.255 being searched as 255.255.255.254).
C1_RecordFromCoveringRow ==
    (file \in WellFormed /\ IsOk(opened) /\ query.v = 4 /\ IsOk(result)) =>
        LET c == Covering(Rows4(file), SearchedV4(query.o))
        IN  /\ Cardinality(c) = 1
            /\ \A i \in c : result = SetIp(RowRecord4(opened.v, build, i), query)

\* C2: in a well-formed file, the lookup of an address that no row covers
\* returns RecordNotFound: no record, no other error, no abort; in both
\* families, in both tables, below the first range, above the last one and
\* with an empty IPv6 table.
C2_MissIsRecordNotFound ==
    (file \in WellFormed /\ Looked /\ Uncovered(file, query)) =>
        result = Err("RecordNotFound")

\* C3: a returned record's ip is the address the caller asked for, on every
\* path of ip_lookup and in both families.
C3_IpIsQuery == IsOk(result) => result.v.ip = query

\* C3: a record came back for a Teredo address in a proxy database
C3_Witness ==
    /\ IsOk(result)
    /\ opened.v.family = "proxy"
    /\ IsTeredo(query.o)
    /\ result.v.ip = query

\* C4: the lookup of an IPv4-mapped, 6to4 or Teredo address has the outcome,
\* apart from ip, of the lookup of the IPv4 address extracted from it.
C4_EmbeddedAsExtracted ==
    (Looked /\ query.v = 6 /\ Embedded(query.o)) =>
        Outcome(result) =
            Outcome(ip_lookup(opened.v, build, [v |-> 4, o |-> Extracted(query.o)]))

\* C4: a Teredo address whose extracted address 1.2.3.4 lies in the row "US"
C4_Witness ==
    /\ IsOk(result)
    /\ query.v = 6
    /\ IsTeredo(query.o)
    /\ Extracted(query.o) = <<1, 2, 3, 4>>
    /\ result.v.f["country"] # None
    /\ result.v.f["country"][1].short_name = <<85, 83>>

\* C5: an IPv6 address that is not IPv4-mapped, not 6to4 and not Teredo is
\* searched in the IPv6 table, never in the IPv4 table; ::a.b.c.d included.
C5_NativeInV6Table ==
    (Looked /\ query.v = 6 /\ ~Embedded(query.o)) =>
        /\ Canonicalise(query).table = "v6"
        /\ result = SetIp(IF opened.v.family = "location"
                          THEN loc_ipv6_lookup(opened.v, build, query.o)
                          ELSE get_ipv6_record(opened.v, build, query.o), query)
\* the column-position table of field k of a family
FieldTable(family, k) ==
    IF family = "location"
    THEN LocFieldList[CHOOSE i \in 1..Len(LocFieldList) : LocFieldList[i][1] = k][2]
    ELSE IF k = "country" THEN PX_COUNTRY_POSITION
    ELSE PxFieldList[CHOOSE i \in 1..Len(PxFieldList) : PxFieldList[i][1] = k][2]

\* C6: a field of a returned record is present exactly when the field's
\* column-position entry for the db_type of the database is not 0.
C6_PresentIffColumn ==
    IsOk(result) =>
        \A k \in DOMAIN result.v.f :
            (result.v.f[k] # None) <=>
                (FieldTable(opened.v.family, k)[opened.v.db_type + 1] # 0)

\* is_proxy as claimed, of the names the country cell and the proxy-type
\* cell of row i point to
ClaimedIsProxy(f, t, i) ==
    IF CellName(f, i, PX_COUNTRY_POSITION[t + 1]) = "-" THEN "IsNotAProxy"
    ELSE IF PX_PROXY_TYPE_POSITION[t + 1] # 0
            /\ CellName(f, i, PX_PROXY_TYPE_POSITION[t + 1]) \in {"DCH", "SES"}
    THEN "IsADataCenterIpAddress"
    ELSE "IsAProxy"

\* C7: on a proxy row hit, is_proxy is not-a-proxy when the country short
\* name is "-", else data-center when the string of the proxy_type column
\* is "DCH" or "SES", else proxy.
C7_IsProxyDerivation ==
    (file \in WellFormed /\ IsOk(opened) /\ opened.v.family = "proxy"
        /\ query.v = 4 /\ IsOk(result)) =>
        \A i \in Covering(Rows4(file), SearchedV4(query.o)) :
            result.v.is_proxy = ClaimedIsProxy(file, opened.v.db_type, i)

\* the 1-based offsets of the bytes a reader touches
Touched(op, b, o) ==
    CASE op = "read_u8"   -> {o}
      [] op = "read_u32"  -> o..(o + 3)
      [] op = "read_f32"  -> o..(o + 3)
      [] op = "read_ipv6" -> o..(o + 15)
      [] op = "read_str"  ->
           {o + 1} \cup (IF o + 1 <= Len(b) THEN (o + 2)..(o + 1 + b[o + 1]) ELSE {})

\* C8: a blob reader returns an error when a byte it would touch lies
\* outside [1, L], and a value otherwise; it never aborts and never returns
\* a value of bytes that are not in the blob.
C8_ReadersChecked ==
    (rd.impl # "none") =>
        IF Touched(rd.op, Blob(file), rd.off) \subseteq 1..Len(Blob(file))
        THEN rd.res.tag = "Ok"
        ELSE rd.res.tag = "Err"

\* C9 (as amended): opening a file shorter than 32 bytes fails with
\* GenericError, and no handle is returned.
C9_ShortFileGenericError ==
    (opened.tag # "NotYet" /\ Exists(file) /\ Len(Blob(file)) < 32) =>
        opened.tag = "Err" /\ opened.err = "GenericError"

\* C9: the file of ten zero bytes was opened and refused
C9_Witness ==
    /\ file = "short10"
    /\ opened.tag = "Err"
    /\ opened.err = "GenericError"

\* C9 (as stated): opening a file shorter than 32 bytes fails with UnknownDb.
C9_ShortFileUnknownDb ==
    (opened.tag # "NotYet" /\ Exists(file) /\ Len(Blob(file)) < 32) =>
        opened.tag = "Err" /\ opened.err = "UnknownDb"

\* the product_code byte of a file that has one
ProductCode == Blob(file)[30]

\* C10 (as amended): a file of at least 35 bytes opens as location for
\* product_code 1 and as proxy for product_code 2; a file of at least 32
\* bytes with a product_code other than 0, 1, 2 fails with UnknownDb; a
\* handle of product_code 1 is never proxy, one of product_code 2 never
\* location.
C10_ClassifiedByProductCode ==
    (opened.tag # "NotYet" /\ Len(Blob(file)) >= 32) =>
        /\ (Len(Blob(file)) >= 35 /\ ProductCode = 1) =>
               (IsOk(opened) /\ opened.v.family = "location")
        /\ (Len(Blob(file)) >= 35 /\ ProductCode = 2) =>
               (IsOk(opened) /\ opened.v.family = "proxy")
        /\ (ProductCode \notin {0, 1, 2}) =>
               (opened.tag = "Err" /\ opened.err = "UnknownDb")
        /\ (IsOk(opened) /\ ProductCode = 1) => opened.v.family # "proxy"
        /\ (IsOk(opened) /\ ProductCode = 2) => opened.v.family # "location"

\* C10: a proxy file was opened as proxy
C10_Witness ==
    /\ Len(Blob(file)) >= 35
    /\ ProductCode = 2
    /\ IsOk(opened)
    /\ opened.v.family = "proxy"

\* C10 (as stated): product_code 1 yields a location handle, 2 a proxy
\* handle, any value other than 0, 1, 2 UnknownDb, for every file of the
\* 32 bytes that open requires.
C10_ClassifiedWhateverLength ==
    (opened.tag # "NotYet" /\ Len(Blob(file)) >= 32) =>
        /\ (ProductCode = 1) => (IsOk(opened) /\ opened.v.family = "location")
        /\ (ProductCode = 2) => (IsOk(opened) /\ opened.v.family = "proxy")
        /\ (ProductCode \notin {0, 1, 2}) =>
               (opened.tag = "Err" /\ opened.err = "UnknownDb")
\* the db_year byte of a file that has one
DbYear == Blob(file)[3]

C12_SchemaValidated ==
    IsOk(opened) => (opened.v.db_type \in 1..25 /\ opened.v.db_column >= 1)

\* the header field at offset o of the file, as a number
HeaderU32(o) == Off(LeU32(Blob(file), o))

\* the header claims a row table that ends past the end of the file
TableExceeds ==
    LET L     == Len(Blob(file))
        width == Blob(file)[2] * 4
    IN  \/ HeaderU32(6) >= 1 /\ HeaderU32(10) + HeaderU32(6) * width > L
        \/ HeaderU32(14) >= 1 /\ HeaderU32(18) + HeaderU32(14) * (width + 12) > L

\* C13: opening a file whose header claims a row table that extends past
\* the end of the file fails; no handle is returned.
C13_TruncatedTableRefused ==
    (opened.tag # "NotYet" /\ Len(Blob(file)) >= 35 /\ TableExceeds) =>
        opened.tag = "Err"

\* C14: opening a path that does not exist returns the Io error with the
\* message "Error opening DB file: No such file or directory", whatever a
\* mapping or a header read would have found, and no handle.
C14_MissingFileIoError ==
    (opened.tag # "NotYet" /\ ~Exists(file)) =>
        opened = ErrWith("IoError", <<"Error opening DB file: No such file or directory">>)

\* C14: the missing path was opened and refused
C14_Witness ==
    /\ ~Exists(file)
    /\ opened.tag = "Err"
    /\ opened.err = "IoError"

\* the boundary addresses 0.0.0.0, 255.255.255.255, :: and ::1
BoundaryAddrs ==
    {V4(0, 0, 0, 0), V4(255, 255, 255, 255), V6(0, 0, 0, 0, 0, 0, 0, 0),
     V6(0, 0, 0, 0, 0, 0, 0, 1)}

\* C15: on a valid file the lookup of 0.0.0.0, 255.255.255.255, :: or ::1
\* returns a record or RecordNotFound, never another error and never an
\* abort, in both families.
C15_BoundaryAddresses ==
    (file \in WellFormed /\ Looked /\ query \in BoundaryAddrs) =>
        (IsOk(result) \/ result = Err("RecordNotFound"))

\* C16: a lookup leaves the handle and the bytes of the file as they were,
\* whether it returns a record or an error; so after any sequence of
\* earlier lookups the outcome is the one a handle freshly opened from the
\* same file gives for the address.
C16_HandleUntouched ==
    [][ /\ IsOk(opened) => (opened' = opened /\ disk' = disk)
        /\ (result' # result \/ query' # query) =>
               result' = ip_lookup(from_file(file).v, build, query') ]_vars

\* C16: a lookup has failed and the handle is still the one open returned
C16_Witness ==
    /\ Looked
    /\ result.tag = "Err"
    /\ IsOk(opened)
    /\ opened = from_file(file)

\* C17: of the lookups that run side by side on one handle, in any
\* interleaving of their passes, each returns the outcome ip_lookup gives
\* for its address when run alone; none changes the handle or the file.
C17_ConcurrentLookups ==
    /\ \A t \in Threads :
           lk[t].pc = "done" => lk[t].out = ip_lookup(opened.v, build, lk[t].ip)
    /\ opened.tag # "NotYet" => opened = from_file(file)
    /\ disk = BlobTable

\* C17: a lookup has ended with a record while another one, of another
\* address, is in its loop
C17_Witness ==
    \E t, u \in Threads :
        /\ lk[t].pc = "done"
        /\ IsOk(lk[t].out)
        /\ lk[u].pc = "search"
        /\ lk[u].ip # lk[t].ip

\* C18: a record returned by a lookup on a location handle has its country
\* present, with a short and a long name, for IPv4 and IPv6 queries and
\* whatever handle open returned.
C18_CountryPresent ==
    (IsOk(opened) /\ opened.v.family = "location" /\ IsOk(result)) =>
        /\ result.v.f["country"] # None
        /\ DOMAIN result.v.f["country"][1] = {"short_name", "long_name"}

\* C19: the db_type of every handle that open returns is an index of the
\* column-position tables of the handle's family (26 entries for location,
\* 12 for proxy), and a lookup ends in a record or an error value, never in
\* an abort.
C19_DbTypeIndexesTables ==
    /\ IsOk(opened) =>
           opened.v.db_type < (IF opened.v.family = "location"
                               THEN Len(LOC_COUNTRY_POSITION)
                               ELSE Len(PX_COUNTRY_POSITION))
    /\ Looked => result.tag \in {"Ok", "Err"}

\* the range-begin of row i (counted from 0) of the IPv4 table, as stored
RowBegin4(d, i) == read_u32(Blob(d.src), Off(d.ipv4_db_addr) + i * d.db_column * 4)

\* the rows a scan of the IPv4 table from its first row finds for v: the
\* rows i below ipv4_count with ip_from(i) <= v < ip_from(i + 1)
LinearScan4(d, v) ==
    {i \in 0..(Off(d.ipv4_db_count) - 1) :
        /\ IsOk(RowBegin4(d, i)) /\ IsOk(RowBegin4(d, i + 1))
        /\ U32Le(RowBegin4(d, i).v, v) /\ U32Lt(v, RowBegin4(d, i + 1).v)}

\* C20: without an index and on a well-formed IPv4 table, when row i
\* satisfies ip_from(i) <= v < ip_from(i + 1) the search of ip_lookup(v)
\* returns the record of row i, the row a linear scan finds, in both
\* families.
C20_BinarySearchFindsRow ==
    (file \in WellFormed /\ IsOk(opened) /\ Looked /\ query.v = 4
        /\ opened.v.ipv4_index_base_addr = U32(0)) =>
        \A i \in LinearScan4(opened.v, U32OfOctets(query.o)) :
            result = SetIp(RowRecord4(opened.v, build, i + 1), query)

\* C20: the search of a proxy file has hit a row that is neither the first
\* nor the last of the table
C20_Witness ==
    /\ file = "px2"
    /\ IsOk(opened)
    /\ IsOk(result)
    /\ query.v = 4
    /\ LinearScan4(opened.v, U32OfOctets(query.o)) = {2}
    /\ result = SetIp(RowRecord4(opened.v, build, 3), query)

\* the files with an IPv6 table
HasV6 == {f \in WellFormed \cup Indexed : Rows6(f) # <<>>}

\* the index of file f has an entry for the prefix of address o
InIndex(f, o) ==
    f \in Indexed =>
        (IF Len(o) = 4 THEN o[1] * 256 + o[2] ELSE o[1] * 256 + o[2]) < Len(IdxLow)

\* an IPv6 address that ip_lookup searches in the IPv6 table
NativeV6(ip) == ip.v = 6 /\ Canonicalise(ip).table = "v6"

\* the record made of the columns that follow the 16-byte address of row i
\* (counted from 1) of the IPv6 table
RowRecord6(d, bld, i) ==
    LET row == U32(Off(d.ipv6_db_addr) + (i - 1) * (d.db_column * 4 + 12))
    IN  IF d.family = "location" THEN loc_read_record(d, bld, U32Add(row, U32(12)))
        ELSE px_read_record(d, U32Add(row, U32(16)))

\* C21: in both families the IPv6 search takes its window from the index at
\* ipv6_index_base under the key (octet0 << 8) | octet1 and probes row mid
\* at ipv6_base + mid * (db_column * 4 + 12); so an address inside the
\* range of row i is a hit on row i, materialised from the columns that
\* follow the 16-byte address of that row.
C21_V6StrideAndIndex ==
    (file \in HasV6 /\ IsOk(opened) /\ Looked /\ NativeV6(query) /\ InIndex(file, query.o)) =>
        \A i \in Covering(Rows6(file), query.o) :
            Rows6(file)[i][1].o # query.o =>
                result = SetIp(RowRecord6(opened.v, build, i), query)

\* C22: the IPv6 search uses the bounds of the IPv4 search, ip_from <= w <
\* ip_to, in both families: an IPv6 address equal to the range-begin of a
\* row is a hit on that row.
C22_V6RangeBeginIsHit ==
    (file \in HasV6 /\ IsOk(opened) /\ Looked /\ NativeV6(query) /\ InIndex(file, query.o)) =>
        \A i \in 1..(Len(Rows6(file)) - 1) :
            Rows6(file)[i][1].o = query.o =>
                result = SetIp(RowRecord6(opened.v, build, i), query)

\* how a field is stored: a float, a string or the pair of a country
FieldKind(family, k) ==
    IF k = "country" THEN "country"
    ELSE IF family = "location"
    THEN LocFieldList[CHOOSE i \in 1..Len(LocFieldList) : LocFieldList[i][1] = k][3]
    ELSE "str"

\* the value of a field of kind kd decoded from the column at offset cell
\* of blob b
ColumnValue(b, kd, cell) ==
    LET p == Off(read_u32(b, cell).v)
    IN  CASE kd = "f32"     -> read_f32(b, cell).v
          [] kd = "str"     -> read_str(b, p).v
          [] kd = "country" -> [short_name |-> read_str(b, p).v,
                                long_name  |-> read_str(b, p + 3).v]

\* row_off of the rows that cover the address: the row start in the IPv4
\* table, 12 bytes past the row start in the IPv6 table
HitRowOff(f, d, ip) ==
    IF ip.v = 4
    THEN {Off(d.ipv4_db_addr) + (i - 1) * d.db_column * 4 :
              i \in Covering(Rows4(f), SearchedV4(ip.o))}
    ELSE {Off(d.ipv6_db_addr) + (i - 1) * (d.db_column * 4 + 12) + 12 :
              i \in Covering(Rows6(f), ip.o)}

\* C23: on a hit row each populated field is decoded from its own column,
\* at row_off + 4 * (c - 1) with c the field's table entry for db_type: the
\* float stored there for latitude and longitude, the string at the pointer
\* stored there for every other field (proxy_type included), the pair
\* read_str(p), read_str(p + 3) for country; in both families.
C23_FieldFromOwnColumn ==
    (file \in WellFormed \cup Indexed /\ IsOk(opened) /\ IsOk(result)
        /\ (query.v = 4 \/ NativeV6(query)) /\ InIndex(file, query.o)) =>
        \A row_off \in HitRowOff(file, opened.v, query) :
            \A k \in DOMAIN result.v.f :
                LET c == FieldTable(opened.v.family, k)[opened.v.db_type + 1]
                IN  (c # 0 /\ result.v.f[k] # None) =>
                        result.v.f[k][1] =
                            ColumnValue(Blob(file), FieldKind(opened.v.family, k),
                                        row_off + 4 * (c - 1))

\* C24: every range search of the repository loops while low <= high, so a
\* window of a single row is probed and an address a row covers is returned
\* as a hit on that row, not as not-found; here for the searches of the DB
\* of lib.rs.
C24_SingleRowWindowProbed ==
    (file \in WellFormed \cup Indexed /\ IsOk(opened) /\ Looked
        /\ (query.v = 4 \/ Rows6(file) # <<>>) /\ InIndex(file, query.o)) =>
        \A row_off \in HitRowOff(file, opened.v, query) :
            IsOk(result) /\ Off(result.v.row_addr) = row_off

\* the IPv4 search of the handle's family run for target t as it is: the
\* window of the index or [0, count], then the loop
SearchOfTarget(d, bld, t) ==
    LET w == IF U32Lt(U32(0), d.ipv4_index_base_addr)
             THEN IndexWindow(Blob(d.src), bld, d.ipv4_index_base_addr, U32Hi16Shl3(t))
             ELSE Ok(<<U32(0), d.ipv4_db_count>>)
    IN  IF ~IsOk(w) THEN w
        ELSE IF d.family = "location" THEN loc_ipv4_loop(d, bld, t, w.v[1], w.v[2], MaxProbe)
        ELSE IF bld = "debug" /\ d.db_column * 4 >= U8 THEN Panic
        ELSE px_ipv4_loop(d, bld, (d.db_column * 4) % U8, t, w.v[1], w.v[2], MaxProbe)

\* C25: the IPv4 search replaces the target 0xFFFFFFFF by 0xFFFFFFFE, so the
\* lookup of 255.255.255.255 and of every IPv6 form of it has the outcome,
\* apart from ip, of the lookup of 255.255.255.254; every other target is
\* searched as it is.
C25_MaxSearchedAsMaxMinusOne ==
    (Looked /\ Canonicalise(query).table = "v4") =>
        IF Canonicalise(query).n = U32Max
        THEN Outcome(result) =
                 Outcome(ip_lookup(opened.v, build, V4(255, 255, 255, 254)))
        ELSE result = SetIp(SearchOfTarget(opened.v, build, Canonicalise(query).n), query)

\* C25: a Teredo address that stands for 255.255.255.255 got the record of
\* the row that covers 255.255.255.254
C25_Witness ==
    /\ IsOk(result)
    /\ IsTeredo(query.o)
    /\ Canonicalise(query).n = U32Max
    /\ file \in WellFormed
    /\ Covering(Rows4(file), <<255, 255, 255, 254>>) # {}
    /\ \A i \in Covering(Rows4(file), <<255, 255, 255, 254>>) :
           result = SetIp(RowRecord4(opened.v, build, i), query)

\* C26: every range search terminates on any blob: a pass of the loop
\* either ends the search, in a hit, RecordNotFound or an error, or
\* strictly shrinks the window [low, high].
C26_PassReturnsOrShrinks ==
    [][ \A t \in Threads :
            (lk[t].pc = "search" /\ lk'[t] # lk[t]) =>
                \/ lk'[t].pc = "done" /\ lk'[t].out.tag \in {"Ok", "Err"}
                \/ /\ lk'[t].pc = "search"
                   /\ U32Le(lk[t].low, lk'[t].low)
                   /\ U32Le(lk'[t].high, lk[t].high)
                   /\ <<lk'[t].low, lk'[t].high>> # <<lk[t].low, lk[t].high>> ]_vars

\* the header has a product_code and a db_year that a family accepts
Acceptable == ProductCode \in {1, 2} \/ (ProductCode = 0 /\ DbYear <= 20)

\* the offsets of the bytes read_header touches
HeaderTouched ==
    UNION { HeaderReads[i][2]..(HeaderReads[i][2] + HeaderReads[i][1] - 1) :
                i \in 1..Len(HeaderReads) }

\* C27 (as amended): the header read touches the bytes at offsets 1..35, the
\* last field being the u32 at offset 32: a file of at least 35 bytes with
\* an acceptable product_code and db_year opens without a bounds error, a
\* file of 32 to 34 bytes is refused with GenericError.
C27_HeaderReadTo35 ==
    (opened.tag # "NotYet" /\ Len(Blob(file)) >= 32 /\ Acceptable) =>
        /\ \A o \in HeaderTouched : o <= 35
        /\ IF Len(Blob(file)) >= 35 THEN IsOk(opened) ELSE opened = Err("GenericError")

\* C27: a file of exactly 35 bytes was opened
C27_Witness ==
    /\ Len(Blob(file)) = 35
    /\ Acceptable
    /\ IsOk(opened)

\* C27 (as stated): the header read touches no byte beyond offset 32, and a
\* file of at least 32 bytes with an acceptable product_code and db_year
\* opens without a bounds error.
C27_HeaderReadTo32 ==
    (opened.tag # "NotYet" /\ Len(Blob(file)) >= 32 /\ Acceptable) =>
        /\ \A o \in HeaderTouched : o <= 32
        /\ IsOk(opened)

\* the search of the handle's family in table tb for target t, started from
\* the default window [0, count]
DefaultWindowSearch(d, bld, tb, t) ==
    IF d.family = "location"
    THEN (IF tb = "v4" THEN loc_ipv4_loop(d, bld, t, U32(0), d.ipv4_db_count, MaxProbe)
          ELSE loc_ipv6_loop(d, bld, t, U32(0), d.ipv6_db_count, MaxProbe))
    ELSE (IF tb = "v4"
          THEN px_ipv4_loop(d, bld, (d.db_column * 4) % U8, t, U32(0), d.ipv4_db_count,
                            MaxProbe)
          ELSE px_ipv6_loop(d, bld, (d.db_column * 4 + 12) % U8, t, U32(0),
                            d.ipv6_db_count, MaxProbe))

\* the 16-bit prefix of a target: ip >> 16, or (octet0 << 8) | octet1
Prefix(tb, t) == IF tb = "v4" THEN t[1] ELSE t[1] * 256 + t[2]

\* the target of the search of an address
Target(ip) ==
    IF Canonicalise(ip).table = "v4" THEN ClampMax(Canonicalise(ip).n) ELSE Canonicalise(ip).n

\* C28: on a well-formed file whose index entry of each prefix is a window
\* that holds every row covering an address of the prefix, the lookup
\* through the index (index_base > 0) returns what the same search returns
\* from the default window [0, count]; the entry of prefix k is the two u32
\* at index_base + (k << 3) and index_base + (k << 3) + 4.
C28_IndexSameAsDefaultWindow ==
    LET tb   == Canonicalise(query).table
        k    == Prefix(tb, Target(query))
        base == IF tb = "v4" THEN opened.v.ipv4_index_base_addr
                ELSE opened.v.ipv6_index_base_addr
    IN  (file \in Indexed /\ IsOk(opened) /\ Looked /\ k < Len(IdxLow)) =>
            /\ U32Lt(U32(0), base)
            /\ LeU32(Blob(file), Off(base) + k * 8) = U32(IdxLow[k + 1][1])
            /\ LeU32(Blob(file), Off(base) + k * 8 + 4) = U32(IdxLow[k + 1][2])
            /\ result = SetIp(DefaultWindowSearch(opened.v, build, tb, Target(query)), query)

\* the count and the index base the header gives for table tb
TableCount(d, tb) == IF tb = "v4" THEN d.ipv4_db_count ELSE d.ipv6_db_count

\* the index base the search of table tb tests: the proxy family tests
\* ipv4_index_base_addr for both tables
TestedIndexBase(d, tb) ==
    IF tb = "v4" \/ d.family = "proxy" THEN d.ipv4_index_base_addr
    ELSE d.ipv6_index_base_addr

\* C29: in a range search without index narrowing low and high stay within
\* [0, count] (high = mid - 1 is never applied so as to leave it), and the
\* rows mid and mid + 1 a pass reads both have an index in [0, count].
C29_WindowWithinTable ==
    \A t \in Threads :
        (IsOk(opened) /\ lk[t].pc = "search"
            /\ TestedIndexBase(opened.v, lk[t].table) = U32(0)) =>
            LET count == TableCount(opened.v, lk[t].table)
                mid   == U32Shr1(U32Add(lk[t].low, lk[t].high))
            IN  /\ U32Le(lk[t].low, count)
                /\ U32Le(lk[t].high, count)
                /\ U32Le(lk[t].low, lk[t].high) => U32Lt(mid, count)

\* a computation of the pass on the window [low, high] of table tb leaves
\* the width of its integer: the midpoint low + high, the row width in the
\* u8 of the proxy family, or the offset of row mid or of the row after it
PassWraps(d, tb, low, high) ==
    LET mid  == U32Shr1(U32Add(low, high))
        next == U32Add(mid, U32(1))
        co4  == (d.db_column * 4) % U8
        co6  == (d.db_column * 4 + 12) % U8
    IN  \/ AddOvf(low, high)
        \/ d.family = "location" /\ tb = "v4" /\ (LocRow4(d, mid)[1] \/ LocRow4(d, next)[1])
        \/ d.family = "location" /\ tb = "v6" /\ (LocRow6(d, mid)[1] \/ LocRow6(d, next)[1])
        \/ d.family = "proxy" /\ tb = "v4"
             /\ (d.db_column * 4 >= U8 \/ MulOvf(mid, co4)
                    \/ AddOvf(d.ipv4_db_addr, U32Mul(mid, co4)))
        \/ d.family = "proxy" /\ tb = "v6"
             /\ (d.db_column * 4 + 12 >= U8 \/ AddOvf(mid, U32(co6))
                    \/ AddOvf(d.ipv6_db_addr, U32Add(mid, U32(co6))))

\* C30: every offset a range search computes equals its mathematical value
\* in the integer width used (u32; u8 for the row width of the proxy
\* family), or else the lookup returns an error instead of reading at a
\* wrapped offset.
C30_NoWrappedOffset ==
    \A t \in Threads :
        (IsOk(opened) /\ lk[t].pc = "search" /\ U32Le(lk[t].low, lk[t].high)
            /\ PassWraps(opened.v, lk[t].table, lk[t].low, lk[t].high)) =>
            LET s == SearchPass(opened.v, build, lk[t].table, lk[t].key, lk[t].low, lk[t].high)
            IN  s.done /\ s.res.tag = "Err"

====
